---- MODULE Spec2Model ----
(***************************************************************************)
(* Model of programs of the observability-stack examples:                  *)
(*   - the travel-planner orchestrator's POST /plan handler (plan_trip),   *)
(*   - the OpenSearch Dashboards init script (main and its helpers),       *)
(*   - the canary's start-up and invocation loop (main),                   *)
(*   - the weather agent's POST /invoke handler and WeatherAgent.invoke,   *)
(*   - the events agent's POST /events handler and the MCP server's        *)
(*     POST /mcp handler,                                                  *)
(*   - the canary scenarios' execute methods and                           *)
(*     MultiAgentScenario.validate_trace_hierarchy.                        *)
(* Python None is the empty tuple <<>> and a present Optional value v is   *)
(* the one-element tuple <<v>>.                                            *)
(***************************************************************************)
EXTENDS Integers, Sequences, FiniteSets, TLC

VARIABLES
    \* ---- orchestrator: the locals of plan_trip ----
    pc,               \* position of the handler
    request,          \* the PlanRequest being served
    errors,           \* local list `errors`
    weather_data,     \* local `weather_data` (Optional[dict])
    events_data,      \* local `events_data` (list)
    weather_payload,  \* local dict `weather_payload`
    events_payload,   \* local dict `events_payload`
    timeout,          \* local `timeout`, in milliseconds
    http_log,         \* requests the handler's httpx client has sent, in order
    call_outcome,     \* how each sub-agent call of this request ended
    response,         \* the PlanResponse returned (Optional)
    prev_had_errors,  \* whether the request served before this one recorded errors
    \* ---- canary: the locals of main ----
    canary_pc,        \* position of main
    retry_count,      \* local `retry_count`
    invocation_count, \* local `invocation_count`
    success_count,    \* local `success_count`
    health_checks,    \* calls of check_health so far
    health_ok,        \* whether some check_health returned True
    invoke_posts,     \* POST /invoke requests sent so far
    last_exchange,    \* what the latest POST /invoke produced (Optional)
    last_result,      \* what invoke_agent returned in the latest iteration
    last_raised,      \* what the latest iteration of the loop raised
    \* ---- Dashboards init script: the server and the locals of main ----
    osd_workspace,    \* whether the workspace "AgentOps Observability" exists
    osd_objects,      \* saved objects held by Dashboards
    osd_settings,     \* advanced settings held by Dashboards, per scope
    init_pc,          \* position of main
    workspace_id,     \* local `workspace_id` (Optional)
    title_idx,        \* which of the three create_index_pattern calls is next
    logs_pattern_id,  \* local `logs_pattern_id` (Optional)
    traces_pattern_id,\* local `traces_pattern_id` (Optional)
    runs,             \* completed runs of main
    kept_at_start,    \* kinds of object Dashboards held when this run began
    created_now,      \* kinds for which this run has sent a creating POST
    failures,         \* HTTP exchanges of the script that failed so far
    \* ---- weather agent: the server's global and one POST /invoke ----
    agent_created,    \* whether the global `agent` is set (not None)
    wa_pc,            \* position of the handler and of WeatherAgent.invoke
    invoke_request,   \* the InvokeRequest being served
    conversation_id,  \* local `conversation_id` of the handler (Optional)
    sleeps,           \* time.sleep(fault.delay_ms / 1000) calls of this invocation
    llm_calls,        \* call_llm calls of this invocation
    tool_spans,       \* execute_tool calls of this invocation
    tool_runs,        \* tool functions run by this invocation
    tool_name,        \* local `tool_name` of invoke (Optional)
    agent_span,       \* the invoke_agent span of this invocation
    tool_span,        \* the execute_tool span of this invocation
    invoke_outcome,   \* how agent.invoke ended (Optional)
    http_answer,      \* the answer of POST /invoke (Optional)
    \* ---- events agent and MCP server ----
    ev_pc,            \* position of get_events
    events_request,   \* the EventsRequest being served
    fault_injected,   \* span attribute fault.injected of invoke_agent (Optional)
    mcp_calls,        \* POST /mcp requests sent by this get_events
    client_span,      \* the CLIENT span of the tools/call (Optional)
    mcp_inflight,     \* the POST /mcp request on its way (Optional)
    mcp_request,      \* the request handle_mcp has served (Optional)
    mcp_answer,       \* the JSON-RPC object handle_mcp returned (Optional)
    mcp_span,         \* the SERVER span of handle_mcp (Optional)
    ev_answer,        \* the answer of POST /events (Optional)
    \* ---- canary scenarios ----
    sc_pc,            \* position of the scenario runner
    scenario,         \* class of the scenario whose execute ran
    child_agents,     \* number of entries of agent.child_agents
    invokes_made,     \* agent.invoke calls execute has made
    invoke_raised,    \* str(e) of the exception an invoke raised (Optional)
    scenario_result,  \* the ScenarioResult execute returned (Optional)
    hits,             \* the hits validate_trace_hierarchy got from OpenSearch
    expected_relationships, \* its argument expected_relationships
    validation        \* the TraceHierarchyValidation it returned (Optional)

orchVars == <<pc, request, errors, weather_data, events_data, weather_payload,
              events_payload, timeout, http_log, call_outcome, response,
              prev_had_errors>>

canaryVars == <<canary_pc, retry_count, invocation_count, success_count,
                health_checks, health_ok, invoke_posts, last_exchange,
                last_result, last_raised>>

osdVars == <<osd_workspace, osd_objects, osd_settings>>

initVars == <<init_pc, workspace_id, title_idx, logs_pattern_id,
              traces_pattern_id, runs, kept_at_start, created_now, failures>>

weatherVars == <<agent_created, wa_pc, invoke_request, conversation_id, sleeps,
                 llm_calls, tool_spans, tool_runs, tool_name, agent_span,
                 tool_span, invoke_outcome, http_answer>>

eventsVars == <<ev_pc, events_request, fault_injected, mcp_calls, client_span,
                mcp_inflight, mcp_request, mcp_answer, mcp_span, ev_answer>>

scenarioVars == <<sc_pc, scenario, child_agents, invokes_made, invoke_raised,
                  scenario_result, hits, expected_relationships, validation>>

vars == <<orchVars, canaryVars, osdVars, initVars, weatherVars, eventsVars,
          scenarioVars>>

-----------------------------------------------------------------------------
(* Orchestrator: examples/plain-agents/multi-agent-planner/orchestrator    *)

\* plan_trip keeps everything in locals: handler coroutines share no state,
\* so the model follows one handler that serves requests one after another.

Destinations == {"Paris", "Tokyo"}

\* timeout = 0.001 (seconds), kept in milliseconds
FanOutTimeoutMs == 1
\* timeout = 30.0 (seconds), kept in milliseconds
DefaultTimeoutMs == 30000

Opt(S) == {<<>>} \cup {<<x>> : x \in S}

\* SubAgentFault values a request may carry (probability in percent).
SubAgentFault ==
    {[type |-> "wrong_city", delay_ms |-> 0, probability |-> 100,
      wrong_city |-> <<"Tokyo">>],
     [type |-> "high_latency", delay_ms |-> 3000, probability |-> 50,
      wrong_city |-> <<>>]}

\* FaultConfig.orchestrator: None, the two documented faults, an
\* undocumented value and the empty string.
OrchestratorFaults ==
    {<<>>, <<"partial_failure">>, <<"fan_out_timeout">>, <<"slow_planner">>, <<"">>}

FaultConfig ==
    [orchestrator : OrchestratorFaults,
     weather : Opt(SubAgentFault),
     events : Opt(SubAgentFault)]

PlanRequest == [destination : Destinations, fault : Opt(FaultConfig)]

\* pydantic's model_dump() of a SubAgentFault: a dict of its four fields.
model_dump(f) ==
    [type |-> f.type, delay_ms |-> f.delay_ms,
     probability |-> f.probability, wrong_city |-> f.wrong_city]

\* `fault and fault.orchestrator == name`
OrchestratorFaultIs(req, name) ==
    /\ req.fault # <<>>
    /\ req.fault[1].orchestrator = <<name>>

\* Mutant: the weather payload takes its fault from fault.events.
WeatherPayloadFromEvents(req) ==
    LET base == [message |-> <<"What's the weather in ", req.destination, "?">>]
    IN  IF req.fault # <<>> /\ req.fault[1].events # <<>>
        THEN [message |-> base.message,
              fault |-> model_dump(req.fault[1].events[1])]
        ELSE base

\* weather_payload after the pass-through block
WeatherPayload(req) ==
    LET base == [message |-> <<"What's the weather in ", req.destination, "?">>]
    IN  IF req.fault # <<>> /\ req.fault[1].weather # <<>>
        THEN [message |-> base.message,
              fault |-> model_dump(req.fault[1].weather[1])]
        ELSE base

\* events_payload after the pass-through block
EventsPayload(req) ==
    LET base == [destination |-> req.destination]
    IN  IF req.fault # <<>> /\ req.fault[1].events # <<>>
        THEN [destination |-> base.destination,
              fault |-> model_dump(req.fault[1].events[1])]
        ELSE base

\* Mutant: every truthy orchestrator fault shortens the timeout.
ClientTimeoutAnyFault(req) ==
    IF req.fault # <<>> /\ req.fault[1].orchestrator \notin {<<>>, <<"">>}
    THEN FanOutTimeoutMs
    ELSE DefaultTimeoutMs

\* the orchestrator-level fault block: the httpx client's timeout
ClientTimeout(req) ==
    IF req.fault # <<>> /\ req.fault[1].orchestrator \notin {<<>>, <<"">>}
    THEN IF req.fault[1].orchestrator = <<"fan_out_timeout">>
         THEN FanOutTimeoutMs
         ELSE DefaultTimeoutMs
    ELSE DefaultTimeoutMs

\* What the awaited client.post to the weather agent may produce.
WeatherReplies ==
    {[kind |-> "response", status |-> 200, text |-> "ok",
      json |-> [response |-> "Sunny", conversation_id |-> "c1"]],
     [kind |-> "response", status |-> 429, text |-> "rate limit exceeded",
      json |-> [detail |-> "rate limit exceeded"]],
     [kind |-> "exception", status |-> 0, text |-> "timed out",
      json |-> [detail |-> "timed out"]]}

\* What the awaited client.post to the events agent may produce.
EventsReplies ==
    {[kind |-> "response", status |-> 200, text |-> "ok",
      json |-> [events |-> <<[name |-> "Jazz Night"], [name |-> "Food Fair"],
                             [name |-> "Art Walk"]>>]],
     [kind |-> "response", status |-> 200, text |-> "ok",
      json |-> [error |-> "tool_error"]],
     [kind |-> "response", status |-> 500, text |-> "internal error",
      json |-> [detail |-> "internal error"]],
     [kind |-> "exception", status |-> 0, text |-> "timed out",
      json |-> [detail |-> "timed out"]]}

ErrorEntry(agent, error) == [agent |-> agent, error |-> error]

HttpPost(agent, url, json, t) ==
    [agent |-> agent, url |-> url, json |-> json, timeout |-> t]

Take(s, n) == SubSeq(s, 1, IF Len(s) < n THEN Len(s) ELSE n)

build_recommendation(destination, weather, events, partial) ==
    LET weatherPart ==
            IF weather # <<>> /\ "response" \in DOMAIN weather[1]
            THEN <<weather[1].response>>
            ELSE IF partial THEN <<"Weather info temporarily unavailable.">>
                 ELSE <<>>
        eventsPart ==
            IF events # <<>>
            THEN <<"Check out">> \o [i \in 1..Len(Take(events, 2)) |-> events[i].name]
            ELSE IF partial THEN <<"Events info temporarily unavailable.">>
                 ELSE <<>>
    IN  <<"Great choice!", destination>> \o weatherPart \o eventsPart

\* `partial = len(errors) > 0`
Partial(errs) == Len(errs) > 0

\* The tail of plan_trip: graceful degradation and the PlanResponse.
PlanResponse(destination, weather, events, errs) ==
    [destination |-> destination,
     weather |-> weather,
     events |-> events,
     recommendation |->
        build_recommendation(destination, weather, events, Partial(errs)),
     partial |-> Partial(errs),
     errors |-> errs]

\* Mutant: `errors` is a module-level list that is never cleared.
BeginKeepsErrors(req) ==
    /\ pc \in {"idle", "returned", "raised"}
    /\ request' = req
    /\ weather_data' = <<>>
    /\ events_data' = <<>>
    /\ weather_payload' = WeatherPayload(req)
    /\ events_payload' = EventsPayload(req)
    /\ timeout' = ClientTimeout(req)
    /\ http_log' = <<>>
    /\ call_outcome' = [weather |-> "pending", events |-> "pending"]
    /\ response' = <<>>
    /\ prev_had_errors' = (errors # <<>>)
    /\ pc' = "weather"
    /\ UNCHANGED errors

\* A request arrives (the previous call of the handler, if any, is over):
\* locals, payloads with fault pass-through, and the client timeout.
Begin(req) ==
    /\ pc \in {"idle", "returned", "raised"}
    /\ request' = req
    /\ errors' = <<>>
    /\ weather_data' = <<>>
    /\ events_data' = <<>>
    /\ weather_payload' = WeatherPayload(req)
    /\ events_payload' = EventsPayload(req)
    /\ timeout' = ClientTimeout(req)
    /\ http_log' = <<>>
    /\ call_outcome' = [weather |-> "pending", events |-> "pending"]
    /\ response' = <<>>
    /\ prev_had_errors' = (errors # <<>>)
    /\ pc' = "weather"

\* partial_failure and random.random() < 0.5: the raise is caught in place.
WeatherSkip ==
    /\ pc = "weather"
    /\ OrchestratorFaultIs(request, "partial_failure")
    /\ errors' = Append(errors,
           ErrorEntry("weather", "Simulated partial failure - skipping weather"))
    /\ call_outcome' = [call_outcome EXCEPT !.weather = "skipped"]
    /\ pc' = "events"
    /\ UNCHANGED <<prev_had_errors, request, weather_data, events_data, weather_payload,
                   events_payload, timeout, http_log, response>>

\* client.post(WEATHER_AGENT_URL/invoke): the request leaves, the handler awaits.
WeatherSend ==
    /\ pc = "weather"
    /\ http_log' = Append(http_log,
           HttpPost("weather", "/invoke", weather_payload, timeout))
    /\ pc' = "weather_wait"
    /\ UNCHANGED <<prev_had_errors, request, errors, weather_data, events_data, weather_payload,
                   events_payload, timeout, call_outcome, response>>

\* Mutant: resp.json() is stored before the status code is looked at.
WeatherReplyStoresAnyBody(r) ==
    /\ pc = "weather_wait"
    /\ IF r.kind = "response" /\ r.status = 200
       THEN /\ weather_data' = <<r.json>>
            /\ call_outcome' = [call_outcome EXCEPT !.weather = "ok"]
            /\ UNCHANGED errors
       ELSE /\ errors' = Append(errors, ErrorEntry("weather", r.text))
            /\ call_outcome' = [call_outcome EXCEPT !.weather =
                   IF r.kind = "response" THEN "status" ELSE "exception"]
            /\ weather_data' = IF r.kind = "response" THEN <<r.json>> ELSE <<>>
    /\ pc' = "events"
    /\ UNCHANGED <<prev_had_errors, request, events_data, weather_payload,
                   events_payload, timeout, http_log, response>>

\* The await ends: a 200, another status, or an exception.
WeatherReply(r) ==
    /\ pc = "weather_wait"
    /\ IF r.kind = "response" /\ r.status = 200
       THEN /\ weather_data' = <<r.json>>
            /\ call_outcome' = [call_outcome EXCEPT !.weather = "ok"]
            /\ UNCHANGED errors
       ELSE /\ errors' = Append(errors, ErrorEntry("weather", r.text))
            /\ call_outcome' = [call_outcome EXCEPT !.weather =
                   IF r.kind = "response" THEN "status" ELSE "exception"]
            /\ UNCHANGED weather_data
    /\ pc' = "events"
    /\ UNCHANGED <<prev_had_errors, request, events_data, weather_payload, events_payload,
                   timeout, http_log, response>>

\* partial_failure and random.random() < 0.5 for the events call: the except
\* clause appends the error and then reads the undefined name tool_span, so
\* a NameError leaves plan_trip.
EventsSkip ==
    /\ pc = "events"
    /\ OrchestratorFaultIs(request, "partial_failure")
    /\ errors' = Append(errors,
           ErrorEntry("events", "Simulated partial failure - skipping events"))
    /\ call_outcome' = [call_outcome EXCEPT !.events = "skipped"]
    /\ pc' = "raised"
    /\ UNCHANGED <<prev_had_errors, request, weather_data, events_data, weather_payload,
                   events_payload, timeout, http_log, response>>

\* Mutant: a gather-like fan-out, the events request leaves while the
\* weather request is still awaited.
EventsSendConcurrent ==
    /\ pc \in {"events", "weather_wait"}
    /\ http_log' = Append(http_log,
           HttpPost("events", "/events", events_payload, timeout))
    /\ pc' = "events_wait"
    /\ UNCHANGED <<prev_had_errors, request, errors, weather_data, events_data,
                   weather_payload, events_payload, timeout, call_outcome,
                   response>>

\* client.post(EVENTS_AGENT_URL/events)
EventsSend ==
    /\ pc = "events"
    /\ http_log' = Append(http_log,
           HttpPost("events", "/events", events_payload, timeout))
    /\ pc' = "events_wait"
    /\ UNCHANGED <<prev_had_errors, request, errors, weather_data, events_data, weather_payload,
                   events_payload, timeout, call_outcome, response>>

\* The await ends; unless the except clause raised, the handler runs to its
\* return (no await lies between).
EventsReply(r) ==
    /\ pc = "events_wait"
    /\ IF r.kind = "exception"
       THEN \* except Exception: append, then NameError on tool_span
            /\ errors' = Append(errors, ErrorEntry("events", r.text))
            /\ call_outcome' = [call_outcome EXCEPT !.events = "exception"]
            /\ pc' = "raised"
            /\ UNCHANGED <<events_data, response>>
       ELSE /\ IF r.status = 200
               THEN IF "error" \notin DOMAIN r.json
                    THEN /\ events_data' = IF "events" \in DOMAIN r.json
                                           THEN r.json.events ELSE <<>>
                         /\ call_outcome' =
                                [call_outcome EXCEPT !.events = "ok"]
                         /\ UNCHANGED errors
                    ELSE /\ errors' = Append(errors,
                                ErrorEntry("events", r.json.error))
                         /\ call_outcome' =
                                [call_outcome EXCEPT !.events = "error_body"]
                         /\ UNCHANGED events_data
               ELSE /\ errors' = Append(errors, ErrorEntry("events", r.text))
                    /\ call_outcome' =
                           [call_outcome EXCEPT !.events = "status"]
                    /\ UNCHANGED events_data
            /\ response' = <<PlanResponse(request.destination, weather_data,
                                          events_data', errors')>>
            /\ pc' = "returned"
    /\ UNCHANGED <<prev_had_errors, request, weather_data, weather_payload, events_payload,
                   timeout, http_log>>

OrchInit ==
    /\ pc = "idle"
    /\ request = [destination |-> "Paris", fault |-> <<>>]
    /\ errors = <<>>
    /\ weather_data = <<>>
    /\ events_data = <<>>
    /\ weather_payload = [message |-> <<>>]
    /\ events_payload = [destination |-> ""]
    /\ timeout = DefaultTimeoutMs
    /\ http_log = <<>>
    /\ call_outcome = [weather |-> "pending", events |-> "pending"]
    /\ response = <<>>
    /\ prev_had_errors = FALSE

OrchNext ==
    \/ \E req \in PlanRequest : Begin(req)
    \/ WeatherSkip
    \/ WeatherSend
    \/ \E r \in WeatherReplies : WeatherReply(r)
    \/ EventsSkip
    \/ EventsSend
    \/ \E r \in EventsReplies : EventsReply(r)

-----------------------------------------------------------------------------
(* Canary: docker-compose/canary/canary.py                                 *)

\* max_retries = 30
max_retries == 30

\* Iterations of the invocation loop that are followed.
MaxInvocations == 3

\* What requests.get(/health) may produce inside check_health: a healthy
\* answer, an HTTP error status (raise_for_status raises), or an exception.
HealthReplies == {"healthy", "http_error", "exception"}

\* check_health(): True only when nothing raised.
check_health(reply) == reply = "healthy"

\* Mutant: the start-up loop tests `retry_count <= max_retries`.
WaitLoopOffByOne(reply) ==
    /\ canary_pc = "waiting"
    /\ retry_count <= max_retries
    /\ health_checks' = health_checks + 1
    /\ IF check_health(reply)
       THEN /\ health_ok' = TRUE
            /\ canary_pc' = "invoking"
            /\ UNCHANGED retry_count
       ELSE /\ retry_count' = retry_count + 1
            /\ UNCHANGED <<health_ok, canary_pc>>
    /\ UNCHANGED <<invocation_count, success_count, invoke_posts,
                   last_exchange, last_result, last_raised>>

\* One round of `while retry_count < max_retries`: check_health, then break
\* or count the retry and sleep.
WaitLoop(reply) ==
    /\ canary_pc = "waiting"
    /\ retry_count < max_retries
    /\ health_checks' = health_checks + 1
    /\ IF check_health(reply)
       THEN /\ health_ok' = TRUE
            /\ canary_pc' = "invoking"
            /\ UNCHANGED retry_count
       ELSE /\ retry_count' = retry_count + 1
            /\ UNCHANGED <<health_ok, canary_pc>>
    /\ UNCHANGED <<invocation_count, success_count, invoke_posts,
                   last_exchange, last_result, last_raised>>

\* The loop's else clause: the condition became false without a break.
WaitLoopElse ==
    /\ canary_pc = "waiting"
    /\ ~(retry_count < max_retries)
    /\ canary_pc' = "exited"
    /\ UNCHANGED <<retry_count, invocation_count, success_count,
                   health_checks, health_ok, invoke_posts, last_exchange,
                   last_result, last_raised>>

\* What requests.post(/invoke) may produce inside invoke_agent: a
\* requests.exceptions.Timeout, any other exception, or a reply with a
\* status code and a body.  Bodies: the InvokeResponse object, the
\* AgentError object {"response", "error": {"type", "message"},
\* "conversation_id"}, FastAPI's {"detail": ...}, or text that is not JSON.
PostOutcomes ==
    {[kind |-> "Timeout", status |-> 0, body |-> "none", error_type |-> <<>>],
     [kind |-> "Exception", status |-> 0, body |-> "none", error_type |-> <<>>],
     [kind |-> "reply", status |-> 200, body |-> "invoke_response",
      error_type |-> <<>>],
     [kind |-> "reply", status |-> 200, body |-> "detail", error_type |-> <<>>],
     [kind |-> "reply", status |-> 200, body |-> "not_json", error_type |-> <<>>],
     [kind |-> "reply", status |-> 429, body |-> "agent_error",
      error_type |-> <<"rate_limit_exceeded">>],
     [kind |-> "reply", status |-> 504, body |-> "agent_error",
      error_type |-> <<"timeout">>],
     [kind |-> "reply", status |-> 500, body |-> "detail", error_type |-> <<>>],
     [kind |-> "reply", status |-> 502, body |-> "not_json", error_type |-> <<>>]}

\* invoke_agent(message, fault) as a function of what the POST produced:
\* the pair (success, error_type).
invoke_agent(x) ==
    IF x.kind = "Timeout" THEN <<FALSE, <<"request_timeout">>>>
    ELSE IF x.kind = "Exception" THEN <<FALSE, <<"unknown">>>>
    \* response.json() raises
    ELSE IF x.body = "not_json" THEN <<FALSE, <<"unknown">>>>
    ELSE IF x.status = 200
    THEN IF x.body = "invoke_response"
         THEN <<TRUE, <<>>>>
         \* data['response'] raises KeyError
         ELSE <<FALSE, <<"unknown">>>>
    \* data.get("error", {}).get("type")
    ELSE IF x.body = "agent_error" THEN <<FALSE, x.error_type>>
    ELSE <<FALSE, <<>>>>

\* What invoke_agent returns: (success, error_type).
InvokeResults == {invoke_agent(x) : x \in PostOutcomes}

\* One iteration of `while True` that reaches its end: count, pick message
\* and fault (they only shape the payload), invoke_agent (one POST /invoke),
\* update the counters, sleep.
InvokeIteration(x) ==
    /\ canary_pc = "invoking"
    /\ invocation_count < MaxInvocations
    /\ invocation_count' = invocation_count + 1
    /\ invoke_posts' = invoke_posts + 1
    /\ last_exchange' = <<x>>
    /\ last_result' = <<invoke_agent(x)>>
    /\ success_count' = IF invoke_agent(x)[1] THEN success_count + 1
                        ELSE success_count
    /\ last_raised' = "none"
    /\ UNCHANGED <<canary_pc, retry_count, health_checks, health_ok>>

\* Mutant: the loop's `except Exception` clause ends the loop.
UnexpectedErrorBreaks(before_post, interrupted) ==
    /\ canary_pc = "invoking"
    /\ invocation_count < MaxInvocations
    /\ invocation_count' = invocation_count + 1
    /\ invoke_posts' = IF before_post THEN invoke_posts ELSE invoke_posts + 1
    /\ last_exchange' = <<>>
    /\ last_result' = <<>>
    /\ last_raised' = IF interrupted THEN "KeyboardInterrupt" ELSE "Exception"
    /\ canary_pc' = "interrupted"
    /\ UNCHANGED <<retry_count, success_count, health_checks, health_ok>>

\* An iteration in which a statement of the try block outside invoke_agent
\* raises an Exception (select_fault before the POST, the bookkeeping or
\* time.sleep after it): `except Exception` prints and sleeps, and the loop
\* goes on.  A KeyboardInterrupt during that sleep is raised inside the
\* except clause, where no clause of this try catches it: it leaves main.
UnexpectedError(before_post, interrupted) ==
    /\ canary_pc = "invoking"
    /\ invocation_count < MaxInvocations
    /\ invocation_count' = invocation_count + 1
    /\ invoke_posts' = IF before_post THEN invoke_posts ELSE invoke_posts + 1
    /\ last_exchange' = <<>>
    /\ last_result' = <<>>
    /\ last_raised' = IF interrupted THEN "KeyboardInterrupt" ELSE "Exception"
    /\ canary_pc' = IF interrupted THEN "interrupted" ELSE "invoking"
    /\ UNCHANGED <<retry_count, success_count, health_checks, health_ok>>

\* A KeyboardInterrupt raised inside the try block: during the sleep that
\* ends an iteration ("sleep"), or in a new iteration before ("before_post")
\* or during ("in_post") invoke_agent.  except KeyboardInterrupt: break
KeyboardInterrupt(stage) ==
    /\ canary_pc = "invoking"
    /\ stage # "sleep" => invocation_count < MaxInvocations
    /\ invocation_count' = IF stage = "sleep" THEN invocation_count
                           ELSE invocation_count + 1
    /\ invoke_posts' = IF stage = "in_post" THEN invoke_posts + 1
                       ELSE invoke_posts
    /\ last_raised' = "KeyboardInterrupt"
    /\ canary_pc' = "stopped"
    /\ UNCHANGED <<retry_count, success_count, health_checks, health_ok,
                   last_exchange, last_result>>

CanaryInit ==
    /\ canary_pc = "waiting"
    /\ retry_count = 0
    /\ invocation_count = 0
    /\ success_count = 0
    /\ health_checks = 0
    /\ health_ok = FALSE
    /\ invoke_posts = 0
    /\ last_exchange = <<>>
    /\ last_result = <<>>
    /\ last_raised = "none"

CanaryNext ==
    \/ \E reply \in HealthReplies : WaitLoop(reply)
    \/ WaitLoopElse
    \/ \E x \in PostOutcomes : InvokeIteration(x)
    \/ \E before_post, interrupted \in BOOLEAN :
           UnexpectedError(before_post, interrupted)
    \/ \E stage \in {"sleep", "before_post", "in_post"} :
           KeyboardInterrupt(stage)

-----------------------------------------------------------------------------
(* Dashboards init script:                                                 *)
(* docker-compose/opensearch-dashboards/init/init-opensearch-dashboards.py *)
(*                                                                         *)
(* Dashboards is the script's environment.  It keeps saved objects; a POST *)
(* to /api/saved_objects/<type> without an id always stores a new object,  *)
(* a workspace or a direct-query connection whose name is taken is         *)
(* refused, a _find under /w/<id>/ sees the objects of that workspace and  *)
(* a _find without workspace sees all.  Every HTTP exchange either is      *)
(* served, or fails (exception, timeout, error status) leaving the server  *)
(* as it was.                                                              *)

\* Runs of main that are followed.
MaxRuns == 2

\* Failed HTTP exchanges that are followed, over all runs.
MaxFailures == 2

\* The titles of the three create_index_pattern calls of main, in order.
IndexPatternTitles ==
    <<"logs-otel-v1-*", "otel-v1-apm-span-*", "otel-v1-apm-service-map">>

\* Ids of the queries in /config/saved-queries-*.yaml.
SavedQueryIds == {"error-spans", "slow-tool-calls"}

\* Ids of the five visualizations of the dashboard.
VisualizationIds ==
    {"llm-requests-by-model", "tool-usage-stats", "token-usage-by-agent",
     "token-usage-by-model", "agent-operations-by-service"}

\* The id Dashboards gives the workspace it creates.
NewWorkspaceId == "ws-1"

\* `workspace_id and workspace_id != "default"`: the URL prefix /w/<id>.
Scope(wid) == IF wid # <<>> /\ wid[1] # "default" THEN wid[1] ELSE "global"

SavedObject(type, scope, key, n) ==
    [type |-> type, scope |-> scope, key |-> key, n |-> n]

\* What a _find for `type` answers under the URL of scope `scope`.
Find(type, scope) ==
    {o \in osd_objects : o.type = type /\ (scope = "global" \/ o.scope = scope)}

\* The object a POST without id stores: a fresh one beside those that exist.
NewObject(type, scope, key) ==
    SavedObject(type, scope, key,
        1 + Cardinality({o \in osd_objects :
                            o.type = type /\ o.scope = scope /\ o.key = key}))

\* The object a POST with an id stores (409 when it exists: nothing new).
ObjectWithId(type, scope, id) == SavedObject(type, scope, id, 1)

\* The kinds of object the script looks up before creating.
Kinds ==
    {"workspace", "correlation", "prometheus", "opensearch"}
        \cup {IndexPatternTitles[i] : i \in DOMAIN IndexPatternTitles}

CountKind(k) ==
    IF k = "workspace" THEN (IF osd_workspace THEN 1 ELSE 0)
    ELSE IF k = "correlation"
         THEN Cardinality({o \in osd_objects : o.type = "correlations"})
    ELSE IF k = "prometheus"
         THEN Cardinality({o \in osd_objects : o.type = "data-connection"})
    ELSE IF k = "opensearch"
         THEN Cardinality({o \in osd_objects : o.type = "data-source"})
    ELSE Cardinality({o \in osd_objects :
                         o.type = "index-pattern" /\ o.key = k})

\* An HTTP exchange is served (ok) or fails.
Exchange(ok) ==
    /\ ok \/ failures < MaxFailures
    /\ failures' = IF ok THEN failures ELSE failures + 1

\* main is started (again): wait_for_dashboards until /api/status is 200.
wait_for_dashboards(ok) ==
    /\ init_pc \in {"start", "done"}
    /\ runs < MaxRuns
    /\ Exchange(ok)
    /\ IF ok
       THEN /\ init_pc' = "get_existing_workspace"
            /\ workspace_id' = <<>>
            /\ title_idx' = 1
            /\ logs_pattern_id' = <<>>
            /\ traces_pattern_id' = <<>>
            /\ kept_at_start' = {k \in Kinds : CountKind(k) > 0}
            /\ created_now' = {}
       ELSE /\ init_pc' = "start"
            /\ UNCHANGED <<workspace_id, title_idx, logs_pattern_id,
                           traces_pattern_id, kept_at_start, created_now>>
    /\ UNCHANGED <<osdVars, runs>>

\* workspace_id = get_existing_workspace(): the id of the workspace named
\* "AgentOps Observability", None when absent, on 404 or on an exception.
get_existing_workspace(ok) ==
    /\ init_pc = "get_existing_workspace"
    /\ Exchange(ok)
    /\ IF ok /\ osd_workspace
       THEN /\ workspace_id' = <<NewWorkspaceId>>
            /\ init_pc' = "get_existing_index_pattern"
       ELSE /\ workspace_id' = <<>>
            /\ init_pc' = "create_workspace"
    /\ UNCHANGED <<osdVars, title_idx, logs_pattern_id, traces_pattern_id,
                   runs, kept_at_start, created_now>>

\* workspace_id = create_workspace(): the new id on success, None when the
\* 200 answer carries no success (the name is taken), "default" on any
\* other status or on an exception.
create_workspace(ok) ==
    /\ init_pc = "create_workspace"
    /\ Exchange(ok)
    /\ created_now' = created_now \cup {"workspace"}
    /\ IF ok
       THEN IF ~osd_workspace
            THEN /\ osd_workspace' = TRUE
                 /\ workspace_id' = <<NewWorkspaceId>>
            ELSE /\ workspace_id' = <<>>
                 /\ UNCHANGED osd_workspace
       ELSE /\ workspace_id' = <<"default">>
            /\ UNCHANGED osd_workspace
    /\ init_pc' = "get_existing_index_pattern"
    /\ UNCHANGED <<osd_objects, osd_settings, title_idx, logs_pattern_id,
                   traces_pattern_id, runs, kept_at_start>>

\* main keeps the result of the first create_index_pattern call as
\* logs_pattern_id, of the second as traces_pattern_id, and drops the third.
StorePatternId(id) ==
    /\ logs_pattern_id' = IF title_idx = 1 THEN id ELSE logs_pattern_id
    /\ traces_pattern_id' = IF title_idx = 2 THEN id ELSE traces_pattern_id
    /\ title_idx' = title_idx + 1
    /\ init_pc' = IF title_idx < Len(IndexPatternTitles)
                  THEN "get_existing_index_pattern"
                  ELSE "set_default_index_pattern"

\* existing_id = get_existing_index_pattern(workspace_id, title): the id of
\* an index pattern with exactly this title, None when absent or on failure.
get_existing_index_pattern(ok) ==
    /\ init_pc = "get_existing_index_pattern"
    /\ Exchange(ok)
    /\ LET found == {o \in Find("index-pattern", Scope(workspace_id)) :
                        o.key = IndexPatternTitles[title_idx]}
       IN  IF ok /\ found # {}
           THEN \E o \in found : StorePatternId(<<o>>)
           ELSE /\ init_pc' = "create_index_pattern"
                /\ UNCHANGED <<title_idx, logs_pattern_id, traces_pattern_id>>
    /\ UNCHANGED <<osdVars, workspace_id, runs, kept_at_start, created_now>>

\* create_index_pattern after the lookup found nothing: the POST.
create_index_pattern(ok) ==
    /\ init_pc = "create_index_pattern"
    /\ Exchange(ok)
    /\ created_now' = created_now \cup {IndexPatternTitles[title_idx]}
    /\ LET new == NewObject("index-pattern", Scope(workspace_id),
                            IndexPatternTitles[title_idx])
       IN  IF ok
           THEN /\ osd_objects' = osd_objects \cup {new}
                /\ StorePatternId(<<new>>)
           ELSE /\ UNCHANGED osd_objects
                /\ StorePatternId(<<>>)
    /\ UNCHANGED <<osd_workspace, osd_settings, workspace_id, runs,
                   kept_at_start>>

Setting(scope, name, value) == [scope |-> scope, name |-> name, value |-> value]

\* A settings POST replaces the value of `name` in `scope`.
WithSetting(scope, name, value) ==
    {x \in osd_settings : ~(x.scope = scope /\ x.name = name)}
        \cup {Setting(scope, name, value)}

\* `if logs_pattern_id: set_default_index_pattern(...)`
set_default_index_pattern(ok) ==
    /\ init_pc = "set_default_index_pattern"
    /\ IF logs_pattern_id # <<>>
       THEN /\ Exchange(ok)
            /\ osd_settings' =
                   IF ok THEN WithSetting(Scope(workspace_id), "defaultIndex",
                                          logs_pattern_id[1].key)
                   ELSE osd_settings
       ELSE /\ ok
            /\ UNCHANGED <<failures, osd_settings>>
    /\ init_pc' = "get_existing_correlation"
    /\ UNCHANGED <<osd_workspace, osd_objects, workspace_id, title_idx,
                   logs_pattern_id, traces_pattern_id, runs, kept_at_start,
                   created_now>>

\* `if traces_pattern_id and logs_pattern_id: create_apm_correlation(...)`,
\* its lookup by correlationType.
get_existing_correlation(ok) ==
    /\ init_pc = "get_existing_correlation"
    /\ IF traces_pattern_id # <<>> /\ logs_pattern_id # <<>>
       THEN /\ Exchange(ok)
            /\ init_pc' =
                   IF ok /\ Find("correlations", Scope(workspace_id)) # {}
                   THEN "create_agent_observability_dashboard"
                   ELSE "create_apm_correlation"
       ELSE /\ ok
            /\ init_pc' = "create_agent_observability_dashboard"
            /\ UNCHANGED failures
    /\ UNCHANGED <<osdVars, workspace_id, title_idx, logs_pattern_id,
                   traces_pattern_id, runs, kept_at_start, created_now>>

\* create_apm_correlation after the lookup found nothing: the POST.
create_apm_correlation(ok) ==
    /\ init_pc = "create_apm_correlation"
    /\ Exchange(ok)
    /\ created_now' = created_now \cup {"correlation"}
    /\ osd_objects' =
           IF ok
           THEN osd_objects \cup {NewObject("correlations",
                                      Scope(workspace_id), "APM-Correlation")}
           ELSE osd_objects
    /\ init_pc' = "create_agent_observability_dashboard"
    /\ UNCHANGED <<osd_workspace, osd_settings, workspace_id, title_idx,
                   logs_pattern_id, traces_pattern_id, runs, kept_at_start>>

\* `if traces_pattern_id: create_agent_observability_dashboard(...)`: the
\* visualizations and the dashboard are posted under fixed ids (200 or 409),
\* then the default dashboard is set.
create_agent_observability_dashboard(ok) ==
    /\ init_pc = "create_agent_observability_dashboard"
    /\ IF traces_pattern_id # <<>>
       THEN /\ Exchange(ok)
            /\ osd_objects' =
                   IF ok
                   THEN osd_objects
                        \cup {ObjectWithId("visualization", Scope(workspace_id), v) :
                                 v \in VisualizationIds}
                        \cup {ObjectWithId("dashboard", Scope(workspace_id),
                                           "agent-observability-dashboard")}
                   ELSE osd_objects
            /\ osd_settings' =
                   IF ok
                   THEN WithSetting(Scope(workspace_id),
                                    "observability:defaultDashboard",
                                    "agent-observability-dashboard")
                   ELSE osd_settings
       ELSE /\ ok
            /\ UNCHANGED <<failures, osd_objects, osd_settings>>
    /\ init_pc' = "create_default_saved_queries"
    /\ UNCHANGED <<osd_workspace, workspace_id, title_idx, logs_pattern_id,
                   traces_pattern_id, runs, kept_at_start, created_now>>

\* create_default_saved_queries: each query is posted under its id (200, or
\* 409 and a PUT).
create_default_saved_queries(ok) ==
    /\ init_pc = "create_default_saved_queries"
    /\ Exchange(ok)
    /\ osd_objects' =
           IF ok
           THEN osd_objects \cup {ObjectWithId("query", Scope(workspace_id), q) :
                                     q \in SavedQueryIds}
           ELSE osd_objects
    /\ init_pc' = "get_existing_prometheus_datasource"
    /\ UNCHANGED <<osd_workspace, osd_settings, workspace_id, title_idx,
                   logs_pattern_id, traces_pattern_id, runs, kept_at_start,
                   created_now>>

\* create_prometheus_datasource, its lookup by connectionId (no workspace
\* in the URL).
get_existing_prometheus_datasource(ok) ==
    /\ init_pc = "get_existing_prometheus_datasource"
    /\ Exchange(ok)
    /\ init_pc' = IF ok /\ Find("data-connection", "global") # {}
                  THEN "get_existing_opensearch_datasource"
                  ELSE "create_prometheus_datasource"
    /\ UNCHANGED <<osdVars, workspace_id, title_idx, logs_pattern_id,
                   traces_pattern_id, runs, kept_at_start, created_now>>

\* create_prometheus_datasource after the lookup found nothing: the POST to
\* /api/directquery/dataconnections (400 "already exists with name" when the
\* name is taken).
create_prometheus_datasource(ok) ==
    /\ init_pc = "create_prometheus_datasource"
    /\ Exchange(ok)
    /\ created_now' = created_now \cup {"prometheus"}
    /\ osd_objects' =
           IF ok /\ Find("data-connection", "global") = {}
           THEN osd_objects \cup {NewObject("data-connection", "global",
                                            "AgentOps_Prometheus")}
           ELSE osd_objects
    /\ init_pc' = "get_existing_opensearch_datasource"
    /\ UNCHANGED <<osd_workspace, osd_settings, workspace_id, title_idx,
                   logs_pattern_id, traces_pattern_id, runs, kept_at_start>>

\* create_opensearch_datasource, its lookup by title; when found, main is
\* through.
get_existing_opensearch_datasource(ok) ==
    /\ init_pc = "get_existing_opensearch_datasource"
    /\ Exchange(ok)
    /\ IF ok /\ Find("data-source", "global") # {}
       THEN /\ init_pc' = "done"
            /\ runs' = runs + 1
       ELSE /\ init_pc' = "create_opensearch_datasource"
            /\ UNCHANGED runs
    /\ UNCHANGED <<osdVars, workspace_id, title_idx, logs_pattern_id,
                   traces_pattern_id, kept_at_start, created_now>>

\* create_opensearch_datasource after the lookup found nothing: the POST;
\* then main prints its summary and returns.
create_opensearch_datasource(ok) ==
    /\ init_pc = "create_opensearch_datasource"
    /\ Exchange(ok)
    /\ created_now' = created_now \cup {"opensearch"}
    /\ osd_objects' =
           IF ok
           THEN osd_objects \cup {NewObject("data-source", "global",
                                            "local_cluster")}
           ELSE osd_objects
    /\ init_pc' = "done"
    /\ runs' = runs + 1
    /\ UNCHANGED <<osd_workspace, osd_settings, workspace_id, title_idx,
                   logs_pattern_id, traces_pattern_id, kept_at_start>>

DashboardsInit ==
    /\ osd_workspace = FALSE
    /\ osd_objects = {}
    /\ osd_settings = {}
    /\ init_pc = "start"
    /\ workspace_id = <<>>
    /\ title_idx = 1
    /\ logs_pattern_id = <<>>
    /\ traces_pattern_id = <<>>
    /\ runs = 0
    /\ kept_at_start = {}
    /\ created_now = {}
    /\ failures = 0

DashboardsNext ==
    \E ok \in BOOLEAN :
        \/ wait_for_dashboards(ok)
        \/ get_existing_workspace(ok)
        \/ create_workspace(ok)
        \/ get_existing_index_pattern(ok)
        \/ create_index_pattern(ok)
        \/ set_default_index_pattern(ok)
        \/ get_existing_correlation(ok)
        \/ create_apm_correlation(ok)
        \/ create_agent_observability_dashboard(ok)
        \/ create_default_saved_queries(ok)
        \/ get_existing_prometheus_datasource(ok)
        \/ create_prometheus_datasource(ok)
        \/ get_existing_opensearch_datasource(ok)
        \/ create_opensearch_datasource(ok)

-----------------------------------------------------------------------------
(* Weather agent: examples/plain-agents/weather-agent (server.py, main.py) *)
(*                                                                         *)
(* The server's POST /invoke handler calls WeatherAgent.invoke, which is   *)
(* followed statement group by statement group; the counters record what   *)
(* the invocation has done so far.  Probabilities are kept in percent.     *)

ToolNames == {"get_current_weather", "get_forecast", "get_historical_weather"}

\* FaultRequest.type values a request may carry.
WeatherFaultTypes ==
    {"high_latency", "tool_timeout", "tool_error", "token_limit_exceeded",
     "rate_limited", "hallucination", "wrong_tool", "unrecognised"}

\* FaultRequest (server.py), copied field by field into FaultConfig (main.py).
FaultRequest ==
    [type : WeatherFaultTypes, delay_ms : {0, 3000}, probability : {0, 50, 100},
     tool : Opt({"get_current_weather", "get_forecast"})]

\* Messages by what call_llm makes of them; "blank" has no word at all.
Messages == {"current", "forecast", "historical", "blank"}

InvokeRequest ==
    [message : Messages, conversation_id : Opt({"", "conv_a"}),
     fault : {<<>>} \cup {<<f>> : f \in FaultRequest}]

\* Values random.random() may take, in percent.
Draws == {0, 50, 99}

\* _should_inject_fault(fault) for the drawn value r.
ShouldInjectFault(fault, r) == fault # <<>> /\ r < fault[1].probability

\* request.conversation_id or f"conv_{uuid.uuid4().hex[:12]}"
ConversationId(req) ==
    IF req.conversation_id # <<>> /\ req.conversation_id[1] # ""
    THEN req.conversation_id[1]
    ELSE "conv_generated"

\* The tool call_llm asks for.
LlmToolName(message) ==
    CASE message = "forecast" -> "get_forecast"
      [] message = "historical" -> "get_historical_weather"
      [] OTHER -> "get_current_weather"

\* wrong_tools.get(tool_name, tool_name)
wrong_tools(name) ==
    CASE name = "get_current_weather" -> "get_forecast"
      [] name = "get_forecast" -> "get_historical_weather"
      [] name = "get_historical_weather" -> "get_current_weather"
      [] OTHER -> name

\* AgentError subclasses: (error_type, status_code).
AgentErrors ==
    [ToolTimeoutError |-> [error_type |-> "timeout", status_code |-> 504],
     ToolExecutionError |-> [error_type |-> "tool_error", status_code |-> 502],
     RateLimitError |-> [error_type |-> "rate_limit_exceeded",
                         status_code |-> 429]]

NoSpan == [started |-> FALSE, error_type |-> <<>>, status |-> "UNSET"]

NewSpan == [started |-> TRUE, error_type |-> <<>>, status |-> "UNSET"]

\* A span after `except Exception as e` of the method that opened it:
\* set_attribute("error.type", type(e).__name__); set_status(ERROR); raise
SpanAfterExcept(span, exc) ==
    [span EXCEPT !.error_type = <<exc>>, !.status = "ERROR"]

Returned(text) == [kind |-> "return", value |-> text]

Raised(exc) == [kind |-> "raise", value |-> exc]

\* The answers of POST /invoke.
InvokeAnswer(status, resp, etype, cid) ==
    [status |-> status, response |-> resp, error_type |-> etype,
     conversation_id |-> cid]

\* lifespan(): start-up creates the agent.
lifespan ==
    /\ wa_pc = "idle"
    /\ ~agent_created
    /\ agent_created' = TRUE
    /\ UNCHANGED <<wa_pc, invoke_request, conversation_id, sleeps, llm_calls,
                   tool_spans, tool_runs, tool_name, agent_span, tool_span,
                   invoke_outcome, http_answer>>

\* POST /invoke arrives: 503 while the agent is None; otherwise the
\* conversation id is chosen and agent.invoke begins (the invoke_agent span
\* is opened and its request attributes are set).
InvokeBegin(req) ==
    /\ wa_pc = "idle"
    /\ invoke_request' = req
    /\ UNCHANGED <<sleeps, llm_calls, tool_spans, tool_runs, tool_name,
                   tool_span, invoke_outcome>>
    /\ IF ~agent_created
       THEN /\ http_answer' = <<InvokeAnswer(503, <<>>, <<>>, <<>>)>>
            /\ conversation_id' = <<>>
            /\ agent_span' = NoSpan
            /\ wa_pc' = "answered"
       ELSE /\ http_answer' = <<>>
            /\ conversation_id' = <<ConversationId(req)>>
            /\ agent_span' = NewSpan
            /\ wa_pc' = "pre_llm"
    /\ UNCHANGED agent_created

\* Mutant: the rate_limited branch is taken only after the LLM call.
PreLlmFaultsSkipsRateLimit(r) ==
    /\ wa_pc = "pre_llm"
    /\ LET fault == invoke_request.fault
           inject == ShouldInjectFault(fault, r)
       IN  /\ sleeps' = IF inject /\ fault[1].delay_ms # 0 THEN sleeps + 1
                        ELSE sleeps
           /\ IF inject /\ fault[1].type = "hallucination"
              THEN /\ agent_span' = [agent_span EXCEPT !.status = "OK"]
                   /\ invoke_outcome' = <<Returned("hallucinated")>>
                   /\ wa_pc' = "agent_done"
              ELSE /\ wa_pc' = "call_llm"
                   /\ UNCHANGED <<agent_span, invoke_outcome>>
    /\ UNCHANGED <<agent_created, invoke_request, conversation_id, llm_calls,
                   tool_spans, tool_runs, tool_name, tool_span, http_answer>>

\* "Check for pre-LLM faults": the delay, then rate_limited (whose exception
\* passes through invoke's except clause) or hallucination.
PreLlmFaults(r) ==
    /\ wa_pc = "pre_llm"
    /\ LET fault == invoke_request.fault
           inject == ShouldInjectFault(fault, r)
       IN  /\ sleeps' = IF inject /\ fault[1].delay_ms # 0 THEN sleeps + 1
                        ELSE sleeps
           /\ IF inject /\ fault[1].type = "rate_limited"
              THEN /\ agent_span' =
                          SpanAfterExcept(
                              [agent_span EXCEPT
                                   !.error_type = <<"rate_limit_exceeded">>,
                                   !.status = "ERROR"],
                              "RateLimitError")
                   /\ invoke_outcome' = <<Raised("RateLimitError")>>
                   /\ wa_pc' = "agent_done"
              ELSE IF inject /\ fault[1].type = "hallucination"
              THEN /\ agent_span' = [agent_span EXCEPT !.status = "OK"]
                   /\ invoke_outcome' = <<Returned("hallucinated")>>
                   /\ wa_pc' = "agent_done"
              ELSE /\ wa_pc' = "call_llm"
                   /\ UNCHANGED <<agent_span, invoke_outcome>>
    /\ UNCHANGED <<agent_created, invoke_request, conversation_id, llm_calls,
                   tool_spans, tool_runs, tool_name, tool_span, http_answer>>

\* call_llm(self.model, messages, self.tools): a message without a word
\* makes messages[-1]["content"].split()[-1] raise IndexError.
CallLlm ==
    /\ wa_pc = "call_llm"
    /\ llm_calls' = llm_calls + 1
    /\ IF invoke_request.message = "blank"
       THEN /\ agent_span' = SpanAfterExcept(agent_span, "IndexError")
            /\ invoke_outcome' = <<Raised("IndexError")>>
            /\ wa_pc' = "agent_done"
            /\ UNCHANGED tool_name
       ELSE /\ tool_name' = <<LlmToolName(invoke_request.message)>>
            /\ wa_pc' = "token_limit"
            /\ UNCHANGED <<agent_span, invoke_outcome>>
    /\ UNCHANGED <<agent_created, invoke_request, conversation_id, sleeps,
                   tool_spans, tool_runs, tool_span, http_answer>>

\* "Check for token_limit_exceeded fault", and the wrong_tool swap in front
\* of execute_tool.
AfterLlm(r1, r2) ==
    /\ wa_pc = "token_limit"
    /\ LET fault == invoke_request.fault
       IN  IF ShouldInjectFault(fault, r1)
              /\ fault[1].type = "token_limit_exceeded"
           THEN /\ agent_span' = [agent_span EXCEPT !.status = "OK"]
                /\ invoke_outcome' = <<Returned("truncated")>>
                /\ wa_pc' = "agent_done"
                /\ UNCHANGED tool_name
           ELSE /\ tool_name' =
                       IF ShouldInjectFault(fault, r2)
                          /\ fault[1].type = "wrong_tool"
                       THEN <<wrong_tools(tool_name[1])>>
                       ELSE tool_name
                /\ wa_pc' = "execute_tool"
                /\ UNCHANGED <<agent_span, invoke_outcome>>
    /\ UNCHANGED <<agent_created, invoke_request, conversation_id, sleeps,
                   llm_calls, tool_spans, tool_runs, tool_span, http_answer>>

\* Mutant: execute_tool applies a tool fault whatever fault.tool names.
ExecuteToolAnyTarget(r) ==
    /\ wa_pc = "execute_tool"
    /\ tool_spans' = tool_spans + 1
    /\ LET fault == invoke_request.fault
           name == tool_name[1]
           applies ==
               /\ ShouldInjectFault(fault, r)
               /\ fault[1].type \in {"tool_timeout", "tool_error", "high_latency"}
           raises == applies /\ fault[1].type \in {"tool_timeout", "tool_error"}
           exc == IF fault[1].type = "tool_timeout" THEN "ToolTimeoutError"
                  ELSE "ToolExecutionError"
       IN  /\ sleeps' = IF applies /\ fault[1].delay_ms # 0 THEN sleeps + 1
                        ELSE sleeps
           /\ IF raises
              THEN /\ tool_span' =
                          SpanAfterExcept(
                              [NewSpan EXCEPT
                                   !.error_type = <<AgentErrors[exc].error_type>>,
                                   !.status = "ERROR"],
                              exc)
                   /\ agent_span' = SpanAfterExcept(agent_span, exc)
                   /\ invoke_outcome' = <<Raised(exc)>>
                   /\ UNCHANGED tool_runs
              ELSE /\ tool_runs' = tool_runs + 1
                   /\ tool_span' = [NewSpan EXCEPT !.status = "OK"]
                   /\ agent_span' = [agent_span EXCEPT !.status = "OK"]
                   /\ invoke_outcome' = <<Returned(name)>>
    /\ wa_pc' = "agent_done"
    /\ UNCHANGED <<agent_created, invoke_request, conversation_id, llm_calls,
                   tool_name, http_answer>>

\* execute_tool(tool_name, tool_args, tool_call_id, fault) and the rest of
\* invoke: the execute_tool span is opened, the tool faults are checked, the
\* tool function runs and the final response is built.  An exception passes
\* through the except clause of execute_tool and then of invoke.
ExecuteTool(r) ==
    /\ wa_pc = "execute_tool"
    /\ tool_spans' = tool_spans + 1
    /\ LET fault == invoke_request.fault
           name == tool_name[1]
           applies ==
               /\ ShouldInjectFault(fault, r)
               /\ fault[1].type \in {"tool_timeout", "tool_error", "high_latency"}
               \* target_tool = fault.tool or tool_name
               /\ (IF fault[1].tool # <<>> THEN fault[1].tool[1] ELSE name) = name
           raises == applies /\ fault[1].type \in {"tool_timeout", "tool_error"}
           exc == IF fault[1].type = "tool_timeout" THEN "ToolTimeoutError"
                  ELSE "ToolExecutionError"
       IN  /\ sleeps' = IF applies /\ fault[1].delay_ms # 0 THEN sleeps + 1
                        ELSE sleeps
           /\ IF raises
              THEN /\ tool_span' =
                          SpanAfterExcept(
                              [NewSpan EXCEPT
                                   !.error_type = <<AgentErrors[exc].error_type>>,
                                   !.status = "ERROR"],
                              exc)
                   /\ agent_span' = SpanAfterExcept(agent_span, exc)
                   /\ invoke_outcome' = <<Raised(exc)>>
                   /\ UNCHANGED tool_runs
              ELSE IF name \in ToolNames \cup {"get_weather"}
              THEN /\ tool_runs' = tool_runs + 1
                   /\ tool_span' = [NewSpan EXCEPT !.status = "OK"]
                   /\ agent_span' = [agent_span EXCEPT !.status = "OK"]
                   /\ invoke_outcome' = <<Returned(name)>>
              ELSE \* raise ValueError(f"Unknown tool: {tool_name}")
                   /\ tool_span' = SpanAfterExcept(NewSpan, "ValueError")
                   /\ agent_span' = SpanAfterExcept(agent_span, "ValueError")
                   /\ invoke_outcome' = <<Raised("ValueError")>>
                   /\ UNCHANGED tool_runs
    /\ wa_pc' = "agent_done"
    /\ UNCHANGED <<agent_created, invoke_request, conversation_id, llm_calls,
                   tool_name, http_answer>>

\* Mutant: the handler answers an AgentError with a freshly generated
\* conversation id.
InvokeEndNewId ==
    /\ wa_pc = "agent_done"
    /\ LET out == invoke_outcome[1]
       IN  http_answer' =
               IF out.kind = "return"
               THEN <<InvokeAnswer(200, <<out.value>>, <<>>, conversation_id)>>
               ELSE IF out.value \in DOMAIN AgentErrors
               THEN <<InvokeAnswer(AgentErrors[out.value].status_code, <<>>,
                                   <<AgentErrors[out.value].error_type>>,
                                   <<"conv_generated">>)>>
               ELSE <<InvokeAnswer(500, <<>>, <<>>, <<>>)>>
    /\ wa_pc' = "answered"
    /\ UNCHANGED <<agent_created, invoke_request, conversation_id, sleeps,
                   llm_calls, tool_spans, tool_runs, tool_name, agent_span,
                   tool_span, invoke_outcome>>

\* The end of the POST /invoke handler: InvokeResponse for a normal return,
\* the JSONResponse of `except AgentError`, HTTPException(500) otherwise.
InvokeEnd ==
    /\ wa_pc = "agent_done"
    /\ LET out == invoke_outcome[1]
       IN  http_answer' =
               IF out.kind = "return"
               THEN <<InvokeAnswer(200, <<out.value>>, <<>>, conversation_id)>>
               ELSE IF out.value \in DOMAIN AgentErrors
               THEN <<InvokeAnswer(AgentErrors[out.value].status_code, <<>>,
                                   <<AgentErrors[out.value].error_type>>,
                                   conversation_id)>>
               ELSE <<InvokeAnswer(500, <<>>, <<>>, <<>>)>>
    /\ wa_pc' = "answered"
    /\ UNCHANGED <<agent_created, invoke_request, conversation_id, sleeps,
                   llm_calls, tool_spans, tool_runs, tool_name, agent_span,
                   tool_span, invoke_outcome>>

\* The handler has answered: its locals are gone and the server waits for
\* the next request.
InvokeExit ==
    /\ wa_pc = "answered"
    /\ wa_pc' = "idle"
    /\ invoke_request' = [message |-> "current", conversation_id |-> <<>>,
                          fault |-> <<>>]
    /\ conversation_id' = <<>>
    /\ sleeps' = 0
    /\ llm_calls' = 0
    /\ tool_spans' = 0
    /\ tool_runs' = 0
    /\ tool_name' = <<>>
    /\ agent_span' = NoSpan
    /\ tool_span' = NoSpan
    /\ invoke_outcome' = <<>>
    /\ http_answer' = <<>>
    /\ UNCHANGED agent_created

WeatherInit ==
    /\ agent_created = FALSE
    /\ wa_pc = "idle"
    /\ invoke_request = [message |-> "current", conversation_id |-> <<>>,
                         fault |-> <<>>]
    /\ conversation_id = <<>>
    /\ sleeps = 0
    /\ llm_calls = 0
    /\ tool_spans = 0
    /\ tool_runs = 0
    /\ tool_name = <<>>
    /\ agent_span = NoSpan
    /\ tool_span = NoSpan
    /\ invoke_outcome = <<>>
    /\ http_answer = <<>>

WeatherNext ==
    \/ lifespan
    \/ \E req \in InvokeRequest : InvokeBegin(req)
    \/ \E r \in Draws : PreLlmFaults(r)
    \/ CallLlm
    \/ \E r1, r2 \in Draws : AfterLlm(r1, r2)
    \/ \E r \in Draws : ExecuteTool(r)
    \/ InvokeEnd
    \/ InvokeExit

-----------------------------------------------------------------------------
(* Events agent and MCP server:                                            *)
(* examples/plain-agents/multi-agent-planner/events-agent/main.py and      *)
(* examples/plain-agents/multi-agent-planner/mcp-server/main.py            *)
(*                                                                         *)
(* One POST /events is followed from arrival to answer, with the MCP       *)
(* server handling the tools/call in between; the MCP server also serves   *)
(* requests of other clients.  An event is followed by its name, its venue *)
(* and its date; a name is the pair of where it comes from and its place   *)
(* in that list.  Probabilities are kept in percent.                       *)

\* Keys of SAMPLE_EVENTS that are followed (three of the eight).
Cities == {"paris", "london", "tokyo"}

\* request.destination values.
EventsDestinations == {"Paris", "tokyo"}

\* str.lower() on the strings that occur.
lower(s) ==
    CASE s = "Paris" -> "paris"
      [] s = "Tokyo" -> "tokyo"
      [] OTHER -> s

\* FaultConfig of the events agent.
EventsFaultTypes ==
    {"timeout", "error", "rate_limited", "high_latency", "wrong_city", "empty",
     "unrecognised"}

EventsFaultConfig ==
    [type : EventsFaultTypes, delay_ms : {500}, probability : {0, 50, 100},
     wrong_city : Opt({"london", "Tokyo", "paris", ""})]

EventsRequest ==
    [destination : EventsDestinations,
     fault : {<<>>} \cup {<<f>> : f \in EventsFaultConfig}]

\* should_inject_fault(fault) for the drawn value r.
should_inject_fault(fault, r) == fault # <<>> /\ r < fault[1].probability

\* SAMPLE_EVENTS[city]: three events per city.
SAMPLE_EVENTS(city) ==
    [i \in 1..3 |-> [name |-> <<city, i>>, venue |-> "venue"]]

\* SAMPLE_EVENTS.get(wrong, SAMPLE_EVENTS["paris"])
SampleEventsGet(wrong) ==
    IF wrong \in Cities THEN SAMPLE_EVENTS(wrong) ELSE SAMPLE_EVENTS("paris")

\* Results of random.sample(events_data, 2): two distinct places, in order.
Pairs == {p \in (1..3) \X (1..3) : p[1] # p[2]}

\* Results of random.sample(events, k = random.randint(1, 3)) that are
\* followed.
McpSamples == {<<1>>, <<3>>, <<1, 2>>, <<3, 1>>, <<1, 2, 3>>, <<2, 3, 1>>}

\* Event(name=e["name"], ..., venue=e["venue"], date=date) for the sample.
WrongCityEvents(wrong, pair) ==
    [k \in 1..2 |-> [name |-> SampleEventsGet(wrong)[pair[k]].name,
                     venue |-> SampleEventsGet(wrong)[pair[k]].venue,
                     date |-> "today"]]

\* Event(name=e["name"], ..., venue=e.get("venue", "TBD"),
\*       date=e.get("date", date)) for the events of the MCP result.
EventsOfResult(events_list) ==
    [k \in 1..Len(events_list) |->
        [name |-> events_list[k].name, venue |-> "TBD",
         date |-> events_list[k].date]]

EventsAnswer(kind, etype, destination, events) ==
    [kind |-> kind, error_type |-> etype, destination |-> destination,
     events |-> events]

\* ---- MCP server ----

ArgumentKinds ==
    {[kind |-> "dict", place |-> <<"paris">>],
     [kind |-> "dict", place |-> <<>>],
     [kind |-> "not_a_dict", place |-> <<>>]}

\* Bodies and headers of POST /mcp: ToolCallRequest with params a dict.
McpRequests ==
    [session : Opt({"sess_other"}),
     traceparent : {<<>>},
     id : Opt({"", "req_other"}),
     name : Opt({"fetch_weather_api", "fetch_events_api", "delete_everything"}),
     arguments : ArgumentKinds]

\* Mutant: an unknown tool name yields an empty result.
execute_toolNoRaise(name, args, sample) ==
    IF args.kind # "dict"
    THEN [ok |-> FALSE, tool |-> name, place |-> "", events |-> <<>>]
    ELSE LET place == IF args.place # <<>> THEN args.place[1] ELSE "Unknown"
         IN  IF name = "fetch_events_api"
             THEN [ok |-> TRUE, tool |-> name, place |-> place,
                   events |-> [k \in 1..Len(sample) |->
                                  [name |-> <<place, sample[k]>>,
                                   date |-> "2025-03"]]]
             ELSE [ok |-> TRUE, tool |-> name, place |-> place, events |-> <<>>]

\* execute_tool(name, args): the result, or ok = FALSE when it raises
\* (args.get on something that is not a dict, or ValueError for an unknown
\* tool).
execute_tool(name, args, sample) ==
    IF name \notin {"fetch_weather_api", "fetch_events_api"}
    THEN [ok |-> FALSE, tool |-> name, place |-> "", events |-> <<>>]
    ELSE IF args.kind # "dict"
    THEN [ok |-> FALSE, tool |-> name, place |-> "", events |-> <<>>]
    ELSE LET place == IF args.place # <<>> THEN args.place[1] ELSE "Unknown"
         IN  IF name = "fetch_weather_api"
             THEN [ok |-> TRUE, tool |-> name, place |-> place, events |-> <<>>]
             ELSE [ok |-> TRUE, tool |-> name, place |-> place,
                   events |-> [k \in 1..Len(sample) |->
                                  [name |-> <<place, sample[k]>>,
                                   date |-> "2025-03"]]]

\* Mutant: the server starts its span in a context of its own.
extractIgnoresHeaders(req) ==
    [trace_id |-> "trace_mcp", span_id |-> <<>>]

\* extract(request.headers): the remote span context of the traceparent
\* header, or an empty context (the span becomes the root of a new trace).
extract(req) ==
    IF req.traceparent # <<>>
    THEN [trace_id |-> req.traceparent[1].trace_id,
          span_id |-> <<req.traceparent[1].span_id>>]
    ELSE [trace_id |-> "trace_mcp", span_id |-> <<>>]

\* The MCP SERVER span of handle_mcp.
ServerSpan(req) ==
    [trace_id |-> extract(req).trace_id,
     parent |-> extract(req).span_id,
     \* request.headers.get("mcp-session-id", uuid4().hex)
     session_id |-> IF req.session # <<>> THEN req.session[1] ELSE "sess_generated",
     \* body.id or str(uuid4().hex[:8])
     request_id |-> IF req.id # <<>> /\ req.id[1] # "" THEN req.id[1]
                    ELSE "id_generated"]

\* The JSON-RPC object handle_mcp returns.
McpAnswer(req, sample) ==
    LET tool_name_ == IF req.name # <<>> THEN req.name[1] ELSE "unknown"
        r == execute_tool(tool_name_, req.arguments, sample)
    IN  [jsonrpc |-> "2.0",
         id |-> ServerSpan(req).request_id,
         result |-> IF r.ok THEN <<r>> ELSE <<>>,
         error |-> IF r.ok THEN <<>> ELSE <<[code |-> -32000]>>]

\* ---- events agent ----

\* The CLIENT span "tools/call fetch_events_api", child of invoke_agent.
ClientSpan ==
    [trace_id |-> "trace_events", span_id |-> "span_tools_call",
     parent |-> <<"span_invoke_agent">>,
     session_id |-> "sess_agent", request_id |-> "req_agent"]

\* inject(headers) while `span` is the current span: the traceparent header.
inject(span) == <<[trace_id |-> span.trace_id, span_id |-> span.span_id]>>

\* The POST /mcp request of get_events.
ToolsCall(destination) ==
    [session |-> <<ClientSpan.session_id>>,
     traceparent |-> inject(ClientSpan),
     id |-> <<ClientSpan.request_id>>,
     name |-> <<"fetch_events_api">>,
     arguments |-> [kind |-> "dict", place |-> <<destination>>]]

\* Mutant: an injected 'empty' fault falls through to the MCP call.
get_eventsEmptyCallsMcp(req, r, city, pair) ==
    /\ ev_pc = "idle"
    /\ mcp_request = <<>>
    /\ city # lower(req.destination)
    /\ events_request' = req
    /\ LET destination == lower(req.destination)
           fault == req.fault
           injected == should_inject_fault(fault, r)
       IN  /\ fault_injected' = IF injected THEN <<fault[1].type>> ELSE <<>>
           /\ IF injected /\ fault[1].type \in {"timeout", "error", "rate_limited"}
              THEN /\ ev_answer' =
                          <<EventsAnswer("ErrorResponse",
                                IF fault[1].type = "error" THEN <<"tool_error">>
                                ELSE <<fault[1].type>>,
                                req.destination, <<>>)>>
                   /\ ev_pc' = "answered"
                   /\ UNCHANGED <<mcp_calls, client_span, mcp_inflight>>
              ELSE IF injected /\ fault[1].type = "wrong_city"
              THEN /\ LET wrong == IF /\ fault[1].wrong_city # <<>>
                                      /\ fault[1].wrong_city[1] # ""
                                   THEN fault[1].wrong_city[1]
                                   ELSE city
                      IN  ev_answer' =
                              <<EventsAnswer("EventsResponse", <<>>,
                                    req.destination,
                                    WrongCityEvents(wrong, pair))>>
                   /\ ev_pc' = "answered"
                   /\ UNCHANGED <<mcp_calls, client_span, mcp_inflight>>
              ELSE /\ client_span' = <<ClientSpan>>
                   /\ mcp_inflight' = <<ToolsCall(destination)>>
                   /\ mcp_calls' = mcp_calls + 1
                   /\ ev_pc' = "mcp_wait"
                   /\ UNCHANGED ev_answer
    /\ UNCHANGED <<mcp_request, mcp_answer, mcp_span>>

\* get_events up to its first return or to the POST /mcp: the fault
\* branches, then the tools/call request.  `city` is what random.choice
\* picks among the other cities and `pair` what random.sample picks.
get_events(req, r, city, pair) ==
    /\ ev_pc = "idle"
    /\ mcp_request = <<>>
    /\ city # lower(req.destination)
    /\ events_request' = req
    /\ LET destination == lower(req.destination)
           fault == req.fault
           injected == should_inject_fault(fault, r)
       IN  /\ fault_injected' = IF injected THEN <<fault[1].type>> ELSE <<>>
           /\ IF injected /\ fault[1].type \in {"timeout", "error", "rate_limited"}
              THEN /\ ev_answer' =
                          <<EventsAnswer("ErrorResponse",
                                IF fault[1].type = "error" THEN <<"tool_error">>
                                ELSE <<fault[1].type>>,
                                req.destination, <<>>)>>
                   /\ ev_pc' = "answered"
                   /\ UNCHANGED <<mcp_calls, client_span, mcp_inflight>>
              ELSE IF injected /\ fault[1].type = "wrong_city"
              THEN /\ LET wrong == IF /\ fault[1].wrong_city # <<>>
                                      /\ fault[1].wrong_city[1] # ""
                                   THEN fault[1].wrong_city[1]
                                   ELSE city
                      IN  ev_answer' =
                              <<EventsAnswer("EventsResponse", <<>>,
                                    req.destination,
                                    WrongCityEvents(wrong, pair))>>
                   /\ ev_pc' = "answered"
                   /\ UNCHANGED <<mcp_calls, client_span, mcp_inflight>>
              ELSE IF injected /\ fault[1].type = "empty"
              THEN /\ ev_answer' =
                          <<EventsAnswer("EventsResponse", <<>>,
                                req.destination, <<>>)>>
                   /\ ev_pc' = "answered"
                   /\ UNCHANGED <<mcp_calls, client_span, mcp_inflight>>
              ELSE \* high_latency sleeps; every other case goes straight on
                   /\ client_span' = <<ClientSpan>>
                   /\ mcp_inflight' = <<ToolsCall(destination)>>
                   /\ mcp_calls' = mcp_calls + 1
                   /\ ev_pc' = "mcp_wait"
                   /\ UNCHANGED ev_answer
    /\ UNCHANGED <<mcp_request, mcp_answer, mcp_span>>

\* handle_mcp: the MCP server serves the tools/call of the events agent, or
\* a request of another client while the events agent is idle.
handle_mcp(req, sample) ==
    /\ \/ ev_pc = "mcp_wait" /\ mcp_inflight = <<req>>
       \/ ev_pc = "idle" /\ mcp_request = <<>> /\ req \in McpRequests
    /\ mcp_request' = <<req>>
    /\ mcp_span' = <<ServerSpan(req)>>
    /\ mcp_answer' = <<McpAnswer(req, sample)>>
    /\ mcp_inflight' = <<>>
    /\ ev_pc' = IF ev_pc = "mcp_wait" THEN "mcp_replied" ELSE ev_pc
    /\ UNCHANGED <<events_request, fault_injected, mcp_calls, client_span,
                   ev_answer>>

\* httpx.post raises (no connection, or no answer within 30 s): nothing in
\* get_events catches it.
McpPostFails ==
    /\ ev_pc = "mcp_wait"
    /\ mcp_inflight' = <<>>
    /\ ev_answer' = <<EventsAnswer("exception", <<>>,
                          events_request.destination, <<>>)>>
    /\ ev_pc' = "answered"
    /\ UNCHANGED <<events_request, fault_injected, mcp_calls, client_span,
                   mcp_request, mcp_answer, mcp_span>>

\* The rest of get_events: resp.json().get("result", {}).get("events", [])
\* becomes the events of the EventsResponse.
get_events_end ==
    /\ ev_pc = "mcp_replied"
    /\ LET events_list == IF mcp_answer[1].result # <<>>
                          THEN mcp_answer[1].result[1].events
                          ELSE <<>>
       IN  ev_answer' = <<EventsAnswer("EventsResponse", <<>>,
                              events_request.destination,
                              EventsOfResult(events_list))>>
    /\ ev_pc' = "answered"
    /\ UNCHANGED <<events_request, fault_injected, mcp_calls, client_span,
                   mcp_inflight, mcp_request, mcp_answer, mcp_span>>

\* The handlers have answered: their locals are gone.
EventsExit ==
    /\ \/ ev_pc = "answered"
       \/ ev_pc = "idle" /\ mcp_request # <<>>
    /\ ev_pc' = "idle"
    /\ events_request' = [destination |-> "Paris", fault |-> <<>>]
    /\ fault_injected' = <<>>
    /\ mcp_calls' = 0
    /\ client_span' = <<>>
    /\ mcp_inflight' = <<>>
    /\ mcp_request' = <<>>
    /\ mcp_answer' = <<>>
    /\ mcp_span' = <<>>
    /\ ev_answer' = <<>>

EventsInit ==
    /\ ev_pc = "idle"
    /\ events_request = [destination |-> "Paris", fault |-> <<>>]
    /\ fault_injected = <<>>
    /\ mcp_calls = 0
    /\ client_span = <<>>
    /\ mcp_inflight = <<>>
    /\ mcp_request = <<>>
    /\ mcp_answer = <<>>
    /\ mcp_span = <<>>
    /\ ev_answer = <<>>

EventsNext ==
    \/ \E req \in EventsRequest, r \in Draws, city \in Cities, pair \in Pairs :
           get_events(req, r, city, pair)
    \/ \E req \in McpRequests \cup {mcp_inflight[i] : i \in DOMAIN mcp_inflight},
          sample \in McpSamples :
           handle_mcp(req, sample)
    \/ McpPostFails
    \/ get_events_end
    \/ EventsExit

-----------------------------------------------------------------------------
(* Canary scenarios: examples/python/canary/scenarios.py                   *)
(*                                                                         *)
(* execute is followed for the six scenario classes against an agent whose *)
(* invoke calls return or raise; validate_trace_hierarchy against the hits *)
(* OpenSearch returns.  Every hit has a spanId of its own (span ids are    *)
(* unique within a trace).                                                 *)

\* Child agents of the agent handed to MultiAgentScenario, at most.
MaxChildren == 2

\* invoke_agent spans among the hits of the OpenSearch query, at most.
MaxHits == 2

ScenarioClasses ==
    {"SimpleToolCallScenario", "MultiToolChainScenario", "ToolFailureScenario",
     "HighTokenUsageScenario", "ConversationContextScenario",
     "MultiAgentScenario"}

\* How one agent.invoke ends: "ok", or str(e) of the exception it raises.
InvokeOutcomes ==
    {"ok", "Mock tool failure: get_weather", "Tool execution failed: timeout",
     "Rate limit exceeded"}

\* "Mock tool failure" in str(e) or "Tool execution failed" in str(e)
IsToolFailure(msg) ==
    msg \in {"Mock tool failure: get_weather", "Tool execution failed: timeout"}

\* The agent.invoke calls execute makes when none raises.
NumInvokes(cls, children) ==
    CASE cls \in {"MultiToolChainScenario", "ConversationContextScenario"} -> 3
      [] cls = "MultiAgentScenario" -> 1 + children
      [] OTHER -> 1

\* Place of the first invoke that raises, 0 when none does.
FirstRaise(outcomes) ==
    IF \E i \in DOMAIN outcomes : outcomes[i] # "ok"
    THEN CHOOSE i \in DOMAIN outcomes :
             /\ outcomes[i] # "ok"
             /\ \A j \in 1..(i - 1) : outcomes[j] = "ok"
    ELSE 0

\* ScenarioResult(success=..., error_message=...); a message is the list of
\* the strings it is put together from.
ScenarioResult(success, error_message) ==
    [success |-> success, error_message |-> error_message]

\* Mutant: ToolFailureScenario treats every exception as expected.
ResultOfAnyFailureExpected(cls, children, outcomes) ==
    IF cls = "MultiAgentScenario" /\ children = 0
    THEN ScenarioResult(FALSE, <<"Multi-agent scenario requires agent hierarchy with children">>)
    ELSE IF FirstRaise(outcomes) = 0
    THEN ScenarioResult(TRUE, <<>>)
    ELSE LET e == outcomes[FirstRaise(outcomes)]
         IN  IF cls = "ToolFailureScenario"
             THEN ScenarioResult(TRUE, <<"Expected tool failure: ", e>>)
             ELSE ScenarioResult(FALSE, <<e>>)

\* What execute returns for the outcomes of the invokes it would make.
ResultOf(cls, children, outcomes) ==
    \* if not agent.child_agents: raise ValueError(...)
    IF cls = "MultiAgentScenario" /\ children = 0
    THEN ScenarioResult(FALSE, <<"Multi-agent scenario requires agent hierarchy with children">>)
    ELSE IF FirstRaise(outcomes) = 0
    THEN ScenarioResult(TRUE, <<>>)
    ELSE LET e == outcomes[FirstRaise(outcomes)]
         IN  IF cls = "ToolFailureScenario" /\ IsToolFailure(e)
             THEN ScenarioResult(TRUE, <<"Expected tool failure: ", e>>)
             ELSE ScenarioResult(FALSE, <<e>>)

\* scenario.execute(agent)
execute(cls, children, outcomes) ==
    /\ sc_pc = "idle"
    /\ cls # "MultiAgentScenario" => children = 0
    /\ DOMAIN outcomes = 1..NumInvokes(cls, children)
    /\ scenario' = cls
    /\ child_agents' = children
    /\ invokes_made' =
           IF cls = "MultiAgentScenario" /\ children = 0 THEN 0
           ELSE IF FirstRaise(outcomes) = 0 THEN NumInvokes(cls, children)
           ELSE FirstRaise(outcomes)
    /\ invoke_raised' =
           IF (cls = "MultiAgentScenario" /\ children = 0)
              \/ FirstRaise(outcomes) = 0
           THEN <<>>
           ELSE <<outcomes[FirstRaise(outcomes)]>>
    /\ scenario_result' = <<ResultOf(cls, children, outcomes)>>
    /\ sc_pc' = "executed"
    /\ UNCHANGED <<hits, expected_relationships, validation>>

\* ---- MultiAgentScenario.validate_trace_hierarchy ----

SpanIdAt(i) == <<"s1", "s2", "s3", "s4">>[i]

\* The fields of a hit's _source that the method reads, for the hit at
\* place i; no span is its own parent.
HitsAt(i) ==
    [span_id : {<<SpanIdAt(i)>>},
     parent_span_id : IF i = 1 THEN {<<>>} ELSE Opt({"s1"}),
     agent_id : Opt({"a1", "a2"}), agent_name : {<<"n1">>, <<"n2">>},
     conversation_id : Opt({"c1", "c2"})]

\* Lists of n hits.
RECURSIVE HitListsOf(_)
HitListsOf(n) ==
    IF n = 0 THEN {<<>>}
    ELSE {Append(h, x) : h \in HitListsOf(n - 1), x \in HitsAt(n)}

\* Lists of hits the query may return.
HitLists == UNION {HitListsOf(n) : n \in 0..MaxHits}

\* expected_relationships a caller may pass.
ExpectedLists ==
    {<<>>,
     <<[parent_span_id |-> "s1", parent_agent_id |-> "a1",
        child_span_id |-> "s2", child_agent_id |-> "a2"]>>}

\* span_map: the hits that have a span id.
SpanMap(h) == {i \in DOMAIN h : h[i].span_id # <<>>}

\* span_map.get(id): the hit stored under the span id, <<>> when absent.
SpanMapGet(h, id) ==
    IF \E i \in SpanMap(h) : h[i].span_id = <<id>>
    THEN <<h[CHOOSE i \in SpanMap(h) : h[i].span_id = <<id>>]>>
    ELSE <<>>

\* The truthy values of a field over span_map (agent_ids, agent_names,
\* conversation_ids).
Collected(h, f) == {h[i][f][1] : i \in {j \in SpanMap(h) : h[j][f] # <<>>}}

\* Whether the loop over expected_relationships appends an error for `e`.
RelationshipError(h, e) ==
    LET parent_span == SpanMapGet(h, e.parent_span_id)
        child_span == SpanMapGet(h, e.child_span_id)
    IN  \/ parent_span = <<>>
        \/ child_span = <<>>
        \/ child_span[1].parent_span_id # <<e.parent_span_id>>
        \/ parent_span[1].agent_id # <<e.parent_agent_id>>
        \/ child_span[1].agent_id # <<e.child_agent_id>>

\* is_valid of the TraceHierarchyValidation returned; `ok` is whether the
\* query was answered with status 200 and a JSON body.
IsValid(ok, h, expected) ==
    /\ ok
    /\ Len(h) > 0
    /\ \A k \in DOMAIN expected : ~RelationshipError(h, expected[k])
    /\ Cardinality(Collected(h, "agent_id")) = Cardinality(SpanMap(h))
    /\ Cardinality(Collected(h, "agent_name")) = Cardinality(SpanMap(h))
    /\ ~(Cardinality(Collected(h, "conversation_id")) > 1)

validate_trace_hierarchy(ok, h, expected) ==
    /\ sc_pc = "idle"
    \* no hits are read from an answer that is not a 200
    /\ ~ok => h = <<>>
    /\ hits' = h
    /\ expected_relationships' = expected
    /\ validation' = <<[is_valid |-> IsValid(ok, h, expected)]>>
    /\ sc_pc' = "validated"
    /\ UNCHANGED <<scenario, child_agents, invokes_made, invoke_raised,
                   scenario_result>>

\* The call has returned; the runner goes on to the next one.
ScenarioExit ==
    /\ sc_pc \in {"executed", "validated"}
    /\ sc_pc' = "idle"
    /\ scenario' = "SimpleToolCallScenario"
    /\ child_agents' = 0
    /\ invokes_made' = 0
    /\ invoke_raised' = <<>>
    /\ scenario_result' = <<>>
    /\ hits' = <<>>
    /\ expected_relationships' = <<>>
    /\ validation' = <<>>

ScenariosInit ==
    /\ sc_pc = "idle"
    /\ scenario = "SimpleToolCallScenario"
    /\ child_agents = 0
    /\ invokes_made = 0
    /\ invoke_raised = <<>>
    /\ scenario_result = <<>>
    /\ hits = <<>>
    /\ expected_relationships = <<>>
    /\ validation = <<>>

ScenariosNext ==
    \/ /\ sc_pc = "idle"
       /\ \E cls \in ScenarioClasses, children \in 0..MaxChildren :
             \E outcomes \in [1..NumInvokes(cls, children) -> InvokeOutcomes] :
                 execute(cls, children, outcomes)
    \/ /\ sc_pc = "idle"
       /\ \E ok \in BOOLEAN, expected \in ExpectedLists :
              \E h \in IF ok THEN HitLists ELSE {<<>>} :
                  validate_trace_hierarchy(ok, h, expected)
    \/ ScenarioExit

-----------------------------------------------------------------------------
(* Properties of plan_trip                                                 *)

CountPosts(log, agent) == Cardinality({i \in DOMAIN log : log[i].agent = agent})

CountErrors(errs, agent) == Cardinality({i \in DOMAIN errs : errs[i].agent = agent})

Failed(outcome) == outcome \in {"skipped", "status", "exception", "error_body"}

Finished == pc \in {"returned", "raised"}

\* C1: whenever the events call raises (connection error, timeout, or the
\* simulated skip of partial_failure), plan_trip records one error entry with
\* agent "events" and returns a PlanResponse with partial = true; no
\* exception leaves plan_trip.
C1_EventsExceptionCaught ==
    call_outcome.events \in {"exception", "skipped"} =>
        /\ pc = "returned"
        /\ response # <<>>
        /\ response[1].partial
        /\ CountErrors(response[1].errors, "events") = 1

\* C2: whenever the weather call fails (exception, skip, non-200), plan_trip
\* records one error entry with agent "weather", leaves weather null, still
\* attempts the events call and returns a PlanResponse with partial = true.
C2_WeatherFailureDegrades ==
    (Failed(call_outcome.weather) /\ Finished) =>
        /\ CountErrors(errors, "weather") = 1
        /\ weather_data = <<>>
        /\ call_outcome.events # "pending"
        /\ pc = "returned"
        /\ response # <<>>
        /\ response[1].partial
        /\ response[1].weather = <<>>

\* C3: in every PlanResponse returned, partial is true exactly when errors is
\* non-empty; errors holds at most one entry per sub-agent, each for agent
\* "weather" or "events", a weather entry before an events entry; weather is
\* null whenever a weather error is recorded and events is empty whenever an
\* events error is recorded.
C3_ResponseShape ==
    response # <<>> =>
        LET r == response[1] IN
        /\ r.partial <=> (Len(r.errors) > 0)
        /\ Len(r.errors) <= 2
        /\ \A i \in DOMAIN r.errors : r.errors[i].agent \in {"weather", "events"}
        /\ CountErrors(r.errors, "weather") <= 1
        /\ CountErrors(r.errors, "events") <= 1
        /\ \A i, j \in DOMAIN r.errors :
               (r.errors[i].agent = "weather" /\ r.errors[j].agent = "events")
                   => i < j
        /\ CountErrors(r.errors, "weather") = 1 => r.weather = <<>>
        /\ CountErrors(r.errors, "events") = 1 => r.events = <<>>

C3_Witness ==
    /\ pc = "returned"
    /\ response # <<>>
    /\ response[1].partial
    /\ Len(response[1].errors) = 2
    /\ call_outcome.events = "error_body"
    /\ response[1].weather = <<>>
    /\ response[1].events = <<>>

\* C4 as stated: the fan-out is gather-like, the events request does not wait
\* for the weather response: whenever the handler takes up the weather
\* agent's answer, the events request has already been sent (or skipped).
C4_FanOutConcurrent ==
    [][(pc = "weather_wait" /\ pc' # "weather_wait") =>
           (CountPosts(http_log, "events") = 1
                \/ call_outcome.events # "pending")]_vars

\* C4 amended: the two calls are made one after the other: the events
\* request is sent only after the weather call has ended (answered, failed
\* or skipped), never while the weather request is outstanding.
C4_FanOutSequential ==
    CountPosts(http_log, "events") > 0 =>
        /\ pc \notin {"weather", "weather_wait"}
        /\ call_outcome.weather # "pending"
        /\ \A i, j \in DOMAIN http_log :
               (http_log[i].agent = "weather" /\ http_log[j].agent = "events")
                   => i < j

C4_Witness ==
    /\ pc = "events_wait"
    /\ Len(http_log) = 2
    /\ http_log[1].agent = "weather"
    /\ http_log[2].agent = "events"
    /\ call_outcome.weather = "ok"

\* C5: for one /plan request at most one HTTP request goes to the weather
\* agent and at most one to the events agent, whatever the outcomes (no
\* retry); what the handler holds (errors, weather, events) stems from the
\* calls of this request alone, never from an earlier request.
C5_NoRetryNoCarryOver ==
    /\ CountPosts(http_log, "weather") <= 1
    /\ CountPosts(http_log, "events") <= 1
    /\ Len(http_log) <= 2
    /\ CountErrors(errors, "weather") =
           (IF Failed(call_outcome.weather) THEN 1 ELSE 0)
    /\ CountErrors(errors, "events") =
           (IF Failed(call_outcome.events) THEN 1 ELSE 0)
    /\ Len(errors) = CountErrors(errors, "weather") + CountErrors(errors, "events")
    /\ weather_data # <<>> => call_outcome.weather = "ok"
    /\ events_data # <<>> => call_outcome.events = "ok"
    /\ response # <<>> =>
           /\ response[1].errors = errors
           /\ response[1].weather = weather_data
           /\ response[1].events = events_data
           /\ response[1].destination = request.destination

C5_Witness ==
    /\ prev_had_errors
    /\ pc = "returned"
    /\ call_outcome.weather = "ok"
    /\ call_outcome.events = "ok"
    /\ response[1].errors = <<>>
    /\ ~response[1].partial
    /\ Len(http_log) = 2

\* C6: the HTTP timeout of both sub-agent calls of a request is fixed before
\* the fan-out: 0.001 s exactly when fault.orchestrator is "fan_out_timeout"
\* and 30.0 s in every other case.
C6_TimeoutFixed ==
    pc # "idle" =>
        LET expected ==
                IF request.fault # <<>>
                       /\ request.fault[1].orchestrator = <<"fan_out_timeout">>
                THEN 1 ELSE 30000
        IN  /\ timeout = expected
            /\ \A i \in DOMAIN http_log : http_log[i].timeout = expected

C6_Witness ==
    /\ Len(http_log) = 2
    /\ http_log[1].timeout = 1
    /\ http_log[2].timeout = 1
    /\ request.fault[1].orchestrator = <<"fan_out_timeout">>

\* C7: with orchestrator fault partial_failure each sub-agent call is skipped
\* independently; a skipped call sends no request and records an error, and
\* in each of the four outcomes plan_trip returns a PlanResponse whose partial
\* flag is true exactly when at least one call was skipped or failed.
C7_PartialFailureReturns ==
    (OrchestratorFaultIs(request, "partial_failure") /\ Finished) =>
        /\ pc = "returned"
        /\ response # <<>>
        /\ response[1].partial <=>
               (Failed(call_outcome.weather) \/ Failed(call_outcome.events))
        /\ call_outcome.weather = "skipped" =>
               (CountPosts(http_log, "weather") = 0
                    /\ CountErrors(errors, "weather") = 1)
        /\ call_outcome.events = "skipped" =>
               (CountPosts(http_log, "events") = 0
                    /\ CountErrors(errors, "events") = 1)

\* C8: the payload sent to the weather agent carries a "fault" field exactly
\* when request.fault.weather is set, and it equals that configuration;
\* likewise for the events agent and request.fault.events.  The
\* orchestrator-level fault is never forwarded, and each payload depends on
\* the destination and on its own sub-agent fault only.
C8_FaultPassThrough ==
    pc # "idle" =>
        LET f == request.fault
            wset == f # <<>> /\ f[1].weather # <<>>
            eset == f # <<>> /\ f[1].events # <<>>
        IN  /\ ("fault" \in DOMAIN weather_payload) <=> wset
            /\ ("fault" \in DOMAIN events_payload) <=> eset
            /\ wset => weather_payload.fault = f[1].weather[1]
            /\ eset => events_payload.fault = f[1].events[1]
            /\ DOMAIN weather_payload \subseteq {"message", "fault"}
            /\ DOMAIN events_payload \subseteq {"destination", "fault"}
            /\ weather_payload.message =
                   <<"What's the weather in ", request.destination, "?">>
            /\ events_payload.destination = request.destination
            /\ \A i \in DOMAIN http_log :
                   http_log[i].json = (IF http_log[i].agent = "weather"
                                       THEN weather_payload ELSE events_payload)

C8_Witness ==
    /\ Len(http_log) = 2
    /\ request.fault # <<>>
    /\ request.fault[1].orchestrator = <<"partial_failure">>
    /\ request.fault[1].weather # <<>>
    /\ request.fault[1].events = <<>>
    /\ "fault" \in DOMAIN http_log[1].json
    /\ "fault" \notin DOMAIN http_log[2].json

-----------------------------------------------------------------------------

\* C9: the init script is idempotent: a run of main against a Dashboards
\* that kept the objects of an earlier run sends no creating POST for the
\* workspace, an index pattern, the APM correlation, or the Prometheus and
\* OpenSearch datasources it holds; after any number of runs there is at most
\* one of each of these objects.
C9_Idempotent ==
    /\ \A k \in kept_at_start : k \notin created_now
    /\ \A k \in Kinds : CountKind(k) <= 1

\* C10: main performs at most 30 health checks; the first POST /invoke is
\* sent only after some health check has succeeded, and if all 30 checks
\* fail main returns without ever sending a POST /invoke.
C10_CanaryStartUp ==
    /\ health_checks <= 30
    /\ invoke_posts > 0 => health_ok
    /\ canary_pc \in {"invoking", "stopped"} => health_ok
    /\ (health_checks = 30 /\ ~health_ok) =>
           (invoke_posts = 0 /\ canary_pc \in {"waiting", "exited"})
    /\ canary_pc = "exited" =>
           (health_checks = 30 /\ ~health_ok /\ invoke_posts = 0)

C10_Witness ==
    /\ canary_pc = "exited"
    /\ health_checks = 30
    /\ ~health_ok
    /\ invoke_posts = 0

\* C11: once the invocation loop has started, every step leaves main in the
\* loop unless a KeyboardInterrupt was raised; an iteration in which some
\* other exception was raised is followed by the loop again; and
\* invoke_agent returns (False, 'request_timeout') on a request timeout,
\* (False, 'unknown') on any other exception of the POST, and (True, None)
\* only for an HTTP 200 reply.
C11_LoopRunsUntilInterrupted ==
    [][canary_pc = "invoking" =>
         /\ canary_pc' \in {"invoking", "stopped", "interrupted"}
         /\ canary_pc' # "invoking" => last_raised' = "KeyboardInterrupt"
         /\ last_raised' = "Exception" => canary_pc' = "invoking"
         /\ last_result' # <<>> =>
                /\ last_exchange' # <<>>
                /\ last_exchange'[1].kind = "Timeout" =>
                       last_result'[1] = <<FALSE, <<"request_timeout">>>>
                /\ last_exchange'[1].kind = "Exception" =>
                       last_result'[1] = <<FALSE, <<"unknown">>>>
                /\ last_result'[1] = <<TRUE, <<>>>> =>
                       /\ last_exchange'[1].kind = "reply"
                       /\ last_exchange'[1].status = 200
                /\ last_result'[1][1] => last_result'[1][2] = <<>>
    ]_vars

\* The third iteration raised an Exception before its POST, after two
\* iterations whose invoke_agent reported no success, and main is still in
\* the loop.
C11_Witness ==
    /\ canary_pc = "invoking"
    /\ last_raised = "Exception"
    /\ invocation_count = 3
    /\ invoke_posts = 2
    /\ success_count = 0

-----------------------------------------------------------------------------
(* Properties of the weather agent                                         *)

\* The fault of the request being served is of type t with probability 1.0.
CertainFault(t) ==
    /\ invoke_request.fault # <<>>
    /\ invoke_request.fault[1].type = t
    /\ invoke_request.fault[1].probability = 100

\* C12: POST /invoke answers 503 while the agent is not initialised, 200
\* with the response text when agent.invoke returns, 429 / 504 / 502 with
\* error.type rate_limit_exceeded / timeout / tool_error for RateLimitError /
\* ToolTimeoutError / ToolExecutionError, and 500 for any other exception;
\* every 200 and every AgentError answer carries the conversation id passed
\* to invoke, which is the caller's id when the caller supplied one.
C12_InvokeAnswers ==
    wa_pc = "answered" =>
        LET a == http_answer[1]
            req == invoke_request
        IN  /\ (a.status = 503) <=> ~agent_created
            /\ agent_created =>
                   LET out == invoke_outcome[1]
                   IN  /\ out.kind = "return" =>
                              a.status = 200 /\ a.response = <<out.value>>
                       /\ out = Raised("RateLimitError") =>
                              /\ a.status = 429
                              /\ a.error_type = <<"rate_limit_exceeded">>
                       /\ out = Raised("ToolTimeoutError") =>
                              a.status = 504 /\ a.error_type = <<"timeout">>
                       /\ out = Raised("ToolExecutionError") =>
                              a.status = 502 /\ a.error_type = <<"tool_error">>
                       /\ (/\ out.kind = "raise"
                           /\ out.value \notin {"RateLimitError",
                                                "ToolTimeoutError",
                                                "ToolExecutionError"}) =>
                              a.status = 500
                       /\ a.status \in {200, 429, 502, 504} =>
                              /\ conversation_id # <<>>
                              /\ a.conversation_id = conversation_id
                       /\ (/\ req.conversation_id # <<>>
                           /\ req.conversation_id[1] # "") =>
                              conversation_id = req.conversation_id

\* A tool timeout answered with 504 under the caller's conversation id.
C12_Witness ==
    /\ wa_pc = "answered"
    /\ invoke_request.conversation_id = <<"conv_a">>
    /\ http_answer # <<>>
    /\ http_answer[1].status = 504
    /\ http_answer[1].error_type = <<"timeout">>
    /\ http_answer[1].conversation_id = <<"conv_a">>

\* C19 as stated: for a fault with probability 1.0, hallucination returns
\* the fabricated response without call_llm or execute_tool; rate_limited
\* raises RateLimitError before call_llm; token_limit_exceeded returns the
\* truncated response after call_llm without executing a tool; tool_timeout
\* and tool_error raise inside execute_tool before the tool function runs;
\* high_latency and wrong_tool run a tool and return a normal response.
C19_FaultSteps ==
    wa_pc = "agent_done" =>
        LET out == invoke_outcome[1]
        IN  /\ CertainFault("hallucination") =>
                   /\ out = Returned("hallucinated")
                   /\ llm_calls = 0 /\ tool_spans = 0 /\ tool_runs = 0
            /\ CertainFault("rate_limited") =>
                   out = Raised("RateLimitError") /\ llm_calls = 0
            /\ CertainFault("token_limit_exceeded") =>
                   /\ out = Returned("truncated")
                   /\ llm_calls = 1 /\ tool_spans = 0 /\ tool_runs = 0
            /\ CertainFault("tool_timeout") =>
                   /\ out = Raised("ToolTimeoutError")
                   /\ tool_spans = 1 /\ tool_runs = 0
            /\ CertainFault("tool_error") =>
                   /\ out = Raised("ToolExecutionError")
                   /\ tool_spans = 1 /\ tool_runs = 0
            /\ (CertainFault("high_latency") \/ CertainFault("wrong_tool")) =>
                   /\ out.kind = "return" /\ out.value \in ToolNames
                   /\ tool_runs = 1

\* The fault of the request being served names no tool, or names the tool
\* that execute_tool is asked to run.
FaultTargetsTool ==
    \/ invoke_request.fault[1].tool = <<>>
    \/ invoke_request.fault[1].tool = tool_name

\* C19 amended: hallucination and rate_limited end the invocation before
\* call_llm as stated.  Every other fault type lets call_llm run; when the
\* message has no word call_llm raises IndexError and no tool is executed.
\* Otherwise token_limit_exceeded returns the truncated response without
\* executing a tool; tool_timeout and tool_error raise inside execute_tool
\* before the tool function runs when fault.tool is unset or names the tool
\* being executed, and for any other tool the tool runs and the response is
\* normal; high_latency and wrong_tool run a tool and return a normal response.
C19_FaultStepsAmended ==
    wa_pc = "agent_done" =>
        LET out == invoke_outcome[1]
            blank == invoke_request.message = "blank"
            normal == /\ out.kind = "return" /\ out.value \in ToolNames
                      /\ tool_spans = 1 /\ tool_runs = 1
        IN  /\ CertainFault("hallucination") =>
                   /\ out = Returned("hallucinated")
                   /\ llm_calls = 0 /\ tool_spans = 0 /\ tool_runs = 0
            /\ CertainFault("rate_limited") =>
                   out = Raised("RateLimitError") /\ llm_calls = 0
            /\ (/\ blank
                /\ \E t \in WeatherFaultTypes \ {"hallucination", "rate_limited"} :
                       CertainFault(t)) =>
                   /\ out = Raised("IndexError")
                   /\ llm_calls = 1 /\ tool_spans = 0 /\ tool_runs = 0
            /\ (CertainFault("token_limit_exceeded") /\ ~blank) =>
                   /\ out = Returned("truncated")
                   /\ llm_calls = 1 /\ tool_spans = 0 /\ tool_runs = 0
            /\ (CertainFault("tool_timeout") /\ ~blank) =>
                   IF FaultTargetsTool
                   THEN /\ out = Raised("ToolTimeoutError")
                        /\ tool_spans = 1 /\ tool_runs = 0
                   ELSE normal
            /\ (CertainFault("tool_error") /\ ~blank) =>
                   IF FaultTargetsTool
                   THEN /\ out = Raised("ToolExecutionError")
                        /\ tool_spans = 1 /\ tool_runs = 0
                   ELSE normal
            /\ ((CertainFault("high_latency") \/ CertainFault("wrong_tool"))
                /\ ~blank) => normal

\* A tool_timeout fault aimed at get_forecast has raised in execute_tool
\* before get_forecast ran.
C19_Witness ==
    /\ wa_pc = "agent_done"
    /\ CertainFault("tool_timeout")
    /\ invoke_request.fault[1].tool = <<"get_forecast">>
    /\ tool_name = <<"get_forecast">>
    /\ invoke_outcome = <<Raised("ToolTimeoutError")>>
    /\ llm_calls = 1
    /\ tool_runs = 0

\* C20: when an injected fault raises, the span in which it was raised ends
\* with the error.type of the fault branch: rate_limit_exceeded on the
\* invoke_agent span for rate_limited, timeout on the execute_tool span for
\* tool_timeout, tool_error on the execute_tool span for tool_error.
C20_FaultErrorType ==
    (wa_pc = "agent_done" /\ invoke_outcome[1].kind = "raise") =>
        LET exc == invoke_outcome[1].value
        IN  /\ exc = "RateLimitError" =>
                   agent_span.error_type = <<"rate_limit_exceeded">>
            /\ exc = "ToolTimeoutError" =>
                   tool_span.error_type = <<"timeout">>
            /\ exc = "ToolExecutionError" =>
                   tool_span.error_type = <<"tool_error">>

\* The fault of the request being served is a tool fault.
ToolFault ==
    /\ invoke_request.fault # <<>>
    /\ invoke_request.fault[1].type \in
           {"tool_timeout", "tool_error", "high_latency"}

\* C21: a tool fault whose fault.tool is set affects execute_tool only when
\* the tool being executed is fault.tool: for any other tool execute_tool
\* neither sleeps nor raises and returns the tool's normal result.  With
\* fault.tool unset (or naming the tool executed) an injected fault applies
\* to the tool executed: the delay is slept, tool_timeout and tool_error
\* raise before the tool runs and high_latency lets the tool run.
C21_FaultToolScope ==
    [][(wa_pc = "execute_tool" /\ wa_pc' = "agent_done" /\ ToolFault) =>
          LET fault == invoke_request.fault[1]
              normal == /\ invoke_outcome' = <<Returned(tool_name[1])>>
                        /\ tool_runs' = tool_runs + 1
                        /\ tool_span'.status = "OK"
          IN  /\ ~FaultTargetsTool => (sleeps' = sleeps /\ normal)
              /\ (FaultTargetsTool /\ fault.probability = 100) =>
                     /\ sleeps' = IF fault.delay_ms > 0 THEN sleeps + 1
                                  ELSE sleeps
                     /\ fault.type = "tool_timeout" =>
                            /\ invoke_outcome' = <<Raised("ToolTimeoutError")>>
                            /\ tool_runs' = tool_runs
                     /\ fault.type = "tool_error" =>
                            /\ invoke_outcome' = <<Raised("ToolExecutionError")>>
                            /\ tool_runs' = tool_runs
                     /\ fault.type = "high_latency" => normal
              /\ (sleeps' # sleeps \/ invoke_outcome'[1].kind = "raise") =>
                     FaultTargetsTool
      ]_vars

\* A tool_error fault aimed at get_forecast with a delay has left
\* get_current_weather alone: the one sleep is that of invoke in front of
\* the LLM call, the tool ran and its result came back.
C21_Witness ==
    /\ wa_pc = "agent_done"
    /\ CertainFault("tool_error")
    /\ invoke_request.fault[1].tool = <<"get_forecast">>
    /\ invoke_request.fault[1].delay_ms = 3000
    /\ invoke_request.fault[1].probability = 100
    /\ tool_name = <<"get_current_weather">>
    /\ invoke_outcome = <<Returned("get_current_weather")>>
    /\ tool_runs = 1
    /\ sleeps = 1

\* C22: during one WeatherAgent.invoke with a fault whose delay_ms is
\* greater than 0, the configured delay is slept at most once.
C22_DelaySleptOnce ==
    (/\ wa_pc \in {"pre_llm", "call_llm", "token_limit", "execute_tool",
                   "agent_done", "answered"}
     /\ invoke_request.fault # <<>>
     /\ invoke_request.fault[1].delay_ms > 0) => sleeps <= 1

-----------------------------------------------------------------------------
(* Properties of the events agent and the MCP server                       *)

Injected(t) == fault_injected = <<t>>

\* The names of a sequence of events, in order.
Names(events) == [k \in DOMAIN events |-> events[k].name]

\* C13: without a fault POST /events never answers with an ErrorResponse and
\* sends exactly one POST /mcp; an injected timeout / error / rate_limited
\* fault is answered by an ErrorResponse of type timeout / tool_error /
\* rate_limited without a POST /mcp; an injected empty fault by an empty
\* events list without a POST /mcp; under high_latency or an unrecognised
\* type the one POST /mcp is sent and the events of its result are returned.
C13_EventsFaults ==
    ev_pc = "answered" =>
        LET a == ev_answer[1]
        IN  /\ events_request.fault = <<>> =>
                   a.kind # "ErrorResponse" /\ mcp_calls = 1
            /\ Injected("timeout") =>
                   /\ a.kind = "ErrorResponse" /\ a.error_type = <<"timeout">>
                   /\ mcp_calls = 0
            /\ Injected("error") =>
                   /\ a.kind = "ErrorResponse" /\ a.error_type = <<"tool_error">>
                   /\ mcp_calls = 0
            /\ Injected("rate_limited") =>
                   /\ a.kind = "ErrorResponse"
                   /\ a.error_type = <<"rate_limited">>
                   /\ mcp_calls = 0
            /\ Injected("empty") =>
                   /\ a.kind = "EventsResponse" /\ a.events = <<>>
                   /\ mcp_calls = 0
            /\ (Injected("high_latency") \/ Injected("unrecognised")) =>
                   /\ mcp_calls = 1
                   /\ a.kind # "ErrorResponse"
                   /\ mcp_answer # <<>> =>
                          /\ a.kind = "EventsResponse"
                          /\ mcp_answer[1].result # <<>>
                          /\ Names(a.events) =
                                 Names(mcp_answer[1].result[1].events)

\* Under an injected high_latency fault the two events of the MCP result
\* have been returned.
C13_Witness ==
    /\ ev_pc = "answered"
    /\ Injected("high_latency")
    /\ mcp_calls = 1
    /\ mcp_answer # <<>>
    /\ ev_answer[1].kind = "EventsResponse"
    /\ Names(ev_answer[1].events) = <<<<"paris", 3>>, <<"paris", 1>>>>

\* C14: under an injected wrong_city fault at most two events are returned,
\* all of a city other than the requested destination: of fault.wrong_city
\* when it is given, of one of the other sample cities otherwise.
C14_WrongCity ==
    (ev_pc = "answered" /\ Injected("wrong_city")) =>
        LET a == ev_answer[1]
            fault == events_request.fault[1]
            destination == lower(events_request.destination)
            given == fault.wrong_city # <<>> /\ fault.wrong_city[1] # ""
        IN  /\ a.kind = "EventsResponse"
            /\ Len(a.events) <= 2
            /\ \A k \in DOMAIN a.events :
                   /\ a.events[k].name[1] # destination
                   /\ given => a.events[k].name[1] = fault.wrong_city[1]
                   /\ ~given => a.events[k].name[1] \in Cities \ {destination}

\* C15 as stated: every answer of POST /mcp has jsonrpc "2.0", the id of
\* the request (a generated one when the request has none) and exactly one
\* of result and error: result for fetch_weather_api and fetch_events_api,
\* error with code -32000 for any other tool name.
C15_McpAnswers ==
    mcp_answer # <<>> =>
        LET a == mcp_answer[1]
            req == mcp_request[1]
            known == /\ req.name # <<>>
                     /\ req.name[1] \in {"fetch_weather_api", "fetch_events_api"}
        IN  /\ a.jsonrpc = "2.0"
            /\ (req.id # <<>> /\ req.id[1] # "") => a.id = req.id[1]
            /\ req.id = <<>> => a.id = "id_generated"
            /\ (a.result = <<>>) # (a.error = <<>>)
            /\ known => a.result # <<>>
            /\ ~known => a.error = <<[code |-> -32000]>>

\* C15 amended: every answer of POST /mcp has jsonrpc "2.0", the id of the
\* request when that is a non-empty string and a generated id otherwise, and
\* exactly one of result and error: result for fetch_weather_api and
\* fetch_events_api called with an arguments object, error with code -32000
\* for any other tool name and for arguments that are not an object.
C15_McpAnswersAmended ==
    mcp_answer # <<>> =>
        LET a == mcp_answer[1]
            req == mcp_request[1]
            known == /\ req.name # <<>>
                     /\ req.name[1] \in {"fetch_weather_api", "fetch_events_api"}
        IN  /\ a.jsonrpc = "2.0"
            /\ a.id = IF req.id # <<>> /\ req.id[1] # "" THEN req.id[1]
                      ELSE "id_generated"
            /\ (a.result = <<>>) # (a.error = <<>>)
            /\ (known /\ req.arguments.kind = "dict") =>
                   a.result # <<>> /\ a.result[1].tool = req.name[1]
            /\ (~known \/ req.arguments.kind # "dict") =>
                   a.error = <<[code |-> -32000]>>

\* A request for an unknown tool, without an id, has been answered with the
\* error object under a generated id.
C15_Witness ==
    /\ mcp_answer # <<>>
    /\ mcp_request[1].name = <<"delete_everything">>
    /\ mcp_request[1].id = <<>>
    /\ mcp_answer[1].id = "id_generated"
    /\ mcp_answer[1].error = <<[code |-> -32000]>>
    /\ mcp_answer[1].result = <<>>

\* C16: the SERVER span of every tools/call sent by the events agent has the
\* mcp.session.id and the jsonrpc.request.id of the agent's CLIENT span, is
\* in the same trace and has the CLIENT span as its parent.
C16_SpanCorrelation ==
    (client_span # <<>> /\ mcp_span # <<>>) =>
        /\ mcp_span[1].session_id = client_span[1].session_id
        /\ mcp_span[1].request_id = client_span[1].request_id
        /\ mcp_span[1].trace_id = client_span[1].trace_id
        /\ mcp_span[1].parent = <<client_span[1].span_id>>

\* The MCP server has served a tools/call of the events agent.
C16_Witness ==
    /\ ev_pc = "mcp_replied"
    /\ client_span # <<>>
    /\ mcp_span # <<>>
    /\ mcp_request = <<ToolsCall("tokyo")>>
    /\ mcp_span[1].parent = <<"span_tools_call">>

-----------------------------------------------------------------------------
(* Properties of the canary scenarios                                      *)

\* C17: validate_trace_hierarchy returns is_valid = true only if every
\* expected parent-child relationship exists among the invoke_agent spans,
\* the spans have pairwise distinct agent_id and pairwise distinct
\* agent_name values, and all spans have the same conversation_id.
C17_ValidOnlyIf ==
    (sc_pc = "validated" /\ validation[1].is_valid) =>
        /\ \A k \in DOMAIN expected_relationships :
               LET e == expected_relationships[k]
               IN  \E p, c \in DOMAIN hits :
                       /\ hits[p].span_id = <<e.parent_span_id>>
                       /\ hits[c].span_id = <<e.child_span_id>>
                       /\ hits[c].parent_span_id = hits[p].span_id
                       /\ hits[p].agent_id = <<e.parent_agent_id>>
                       /\ hits[c].agent_id = <<e.child_agent_id>>
        /\ \A i, j \in DOMAIN hits :
               i # j => /\ hits[i].agent_id # hits[j].agent_id
                        /\ hits[i].agent_name # hits[j].agent_name
        /\ \A i, j \in DOMAIN hits :
               hits[i].conversation_id = hits[j].conversation_id

\* C18 as stated: execute always returns a ScenarioResult; success is true
\* when every invoke returned normally, and false with error_message =
\* str(e) when one raised, except that ToolFailureScenario reports success
\* for an exception whose message contains "Mock tool failure" or "Tool
\* execution failed".
C18_ExecuteResult ==
    sc_pc = "executed" =>
        /\ scenario_result # <<>>
        /\ invoke_raised = <<>> => scenario_result[1].success
        /\ invoke_raised # <<>> =>
               IF scenario = "ToolFailureScenario"
               THEN scenario_result[1].success = IsToolFailure(invoke_raised[1])
               ELSE /\ ~scenario_result[1].success
                    /\ scenario_result[1].error_message = invoke_raised
        /\ (/\ invoke_raised # <<>>
            /\ ~scenario_result[1].success) =>
               scenario_result[1].error_message = invoke_raised

\* C18 amended: as stated, for every execute that reaches its invokes;
\* MultiAgentScenario handed an agent without child agents makes no invoke
\* and returns success = false with the message of its own ValueError.
C18_ExecuteResultAmended ==
    sc_pc = "executed" =>
        /\ scenario_result # <<>>
        /\ IF scenario = "MultiAgentScenario" /\ child_agents = 0
           THEN /\ invokes_made = 0
                /\ ~scenario_result[1].success
                /\ scenario_result[1].error_message # <<>>
           ELSE /\ invokes_made > 0
                /\ invoke_raised = <<>> =>
                       /\ scenario_result[1].success
                       /\ scenario_result[1].error_message = <<>>
                /\ invoke_raised # <<>> =>
                       IF scenario = "ToolFailureScenario"
                       THEN scenario_result[1].success =
                                IsToolFailure(invoke_raised[1])
                       ELSE ~scenario_result[1].success
                /\ (invoke_raised # <<>> /\ ~scenario_result[1].success) =>
                       scenario_result[1].error_message = invoke_raised

\* ToolFailureScenario has reported an expected tool failure as a success.
C18_Witness ==
    /\ sc_pc = "executed"
    /\ scenario = "ToolFailureScenario"
    /\ invoke_raised = <<"Mock tool failure: get_weather">>
    /\ scenario_result[1].success
    /\ scenario_result[1].error_message =
           <<"Expected tool failure: ", "Mock tool failure: get_weather">>

-----------------------------------------------------------------------------

Init ==
    /\ OrchInit /\ CanaryInit /\ DashboardsInit /\ WeatherInit /\ EventsInit
    /\ ScenariosInit

\* The programs are separate processes; each is followed on its own.
Next ==
    /\ OrchNext
    /\ UNCHANGED <<canaryVars, osdVars, initVars, weatherVars, eventsVars,
                   scenarioVars>>

Spec == Init /\ [][Next]_vars

NextCanary ==
    /\ CanaryNext
    /\ UNCHANGED <<orchVars, osdVars, initVars, weatherVars, eventsVars,
                   scenarioVars>>

SpecCanary == Init /\ [][NextCanary]_vars

NextDashboards ==
    /\ DashboardsNext
    /\ UNCHANGED <<orchVars, canaryVars, weatherVars, eventsVars, scenarioVars>>

SpecDashboards == Init /\ [][NextDashboards]_vars

NextWeather ==
    /\ WeatherNext
    /\ UNCHANGED <<orchVars, canaryVars, osdVars, initVars, eventsVars,
                   scenarioVars>>

SpecWeather == Init /\ [][NextWeather]_vars

NextEvents ==
    /\ EventsNext
    /\ UNCHANGED <<orchVars, canaryVars, osdVars, initVars, weatherVars,
                   scenarioVars>>

SpecEvents == Init /\ [][NextEvents]_vars

NextScenarios ==
    /\ ScenariosNext
    /\ UNCHANGED <<orchVars, canaryVars, osdVars, initVars, weatherVars,
                   eventsVars>>

SpecScenarios == Init /\ [][NextScenarios]_vars

====
